---- MODULE Spec2Model ----
(***************************************************************************)
(* Brand asset generator: the self-correcting generation engine            *)
(* (AssetGenerator._generate_with_self_correction), the category           *)
(* generators, the complete-package orchestrator and the streaming         *)
(* endpoint, modelled from backend/services/asset_generator.py,            *)
(* backend/services/gemini_service.py, backend/models/schemas.py and       *)
(* backend/main.py.                                                        *)
(*                                                                         *)
(* Every gateway call (image generation, validation, scoring, analysis)    *)
(* is an await in the code: one action of the model runs the code from one *)
(* await to the next, the gateway's answer being the action's input.       *)
(***************************************************************************)
EXTENDS Integers, Sequences, FiniteSets, TLC

VARIABLES eng, pkg, tasks, cache, stream, call

vars == <<eng, pkg, tasks, cache, stream, call>>

(***************************************************************************)
(* Program constants                                                       *)
(***************************************************************************)
MAX_ITERATIONS == 3

VALIDATION_THRESHOLD == 70

(***************************************************************************)
(* Bounds of the model                                                     *)
(***************************************************************************)
\* longest issue list a validation verdict carries
MaxIssues == 2

\* most variants one complete-package request generates, over its categories
MaxAssets == 2

(***************************************************************************)
(* Values                                                                  *)
(***************************************************************************)
\* Optional[T]: <<>> is None, <<v>> is the value v
None == <<>>

Some(v) == <<v>>

IssuePool == <<"off-palette color", "wrong typeface", "tone mismatch", "low contrast">>

Issue(text) == [kind |-> "issue", text |-> text]

\* the issue lists the validation model may report
IssueLists == {[i \in 1..n |-> Issue(IssuePool[i])] : n \in 0..MaxIssues}

\* (image bytes, MIME type) pairs the image model returns; bytes are 0..255
GenResults == {<<(<<137, 80>>), "image/png">>, <<(<<255>>), "image/jpeg">>}

GenErrors == {"No image was generated in the response"}

(***************************************************************************)
(* base64.b64encode: three bytes give four 6-bit symbols, 64 is the pad    *)
(***************************************************************************)
RECURSIVE b64encode(_)
b64encode(bytes) ==
    IF Len(bytes) = 0 THEN <<>>
    ELSE IF Len(bytes) = 1 THEN
        LET n == bytes[1] * 16
        IN  <<n \div 64, n % 64, 64, 64>>
    ELSE IF Len(bytes) = 2 THEN
        LET n == (bytes[1] * 256 + bytes[2]) * 4
        IN  <<n \div 4096, (n \div 64) % 64, n % 64, 64>>
    ELSE
        LET n == bytes[1] * 65536 + bytes[2] * 256 + bytes[3]
        IN  <<n \div 262144, (n \div 4096) % 64, (n \div 64) % 64, n % 64>>
              \o b64encode(SubSeq(bytes, 4, Len(bytes)))

(***************************************************************************)
(* GeminiService.validate_and_critique                                     *)
(***************************************************************************)
VerdictKeys == {"passed", "score", "issues", "critique", "regeneration_guidance"}

Dict(keys, passed, score, issues, critique, guidance) ==
    [keys |-> keys, passed |-> passed, score |-> score, issues |-> issues,
     critique |-> critique, regeneration_guidance |-> guidance]

\* dict.get(key, default)
Get(d, key, default) == IF key \in d.keys THEN d[key] ELSE default

\* mutant: a response that is no JSON counts as a verdict that did not pass
DefaultVerdictNotPassed ==
    Dict(VerdictKeys, FALSE, 75, <<>>, "Asset validated successfully.", None)

\* the dict returned when the response text is no JSON
DefaultVerdict ==
    Dict(VerdictKeys, TRUE, 75, <<>>, "Asset validated successfully.", None)

\* What the text model can answer to a validation prompt: the call raises,
\* the text is not JSON, or it is a JSON object (with any of the keys).
ValResponses ==
    {[kind |-> "raise", json |-> DefaultVerdict],
     [kind |-> "unparseable", json |-> DefaultVerdict]}
    \cup
    {[kind |-> "json", json |-> Dict(VerdictKeys, p, s, i, "critique", g)] :
        p \in BOOLEAN, s \in {40, 85}, i \in IssueLists,
        g \in {None, Some("use the brand palette")}}
    \cup
    {[kind |-> "json", json |-> Dict(k, FALSE, s, <<>>, "critique", None)] :
        k \in {{}, VerdictKeys \ {"passed"}}, s \in {40, 101}}
    \cup
    {[kind |-> "json", json |-> Dict(VerdictKeys, FALSE, 101, <<>>, "critique", None)]}

validate_and_critique(resp) ==
    IF resp.kind = "raise" THEN [raised |-> TRUE, dict |-> DefaultVerdict]
    ELSE IF resp.kind = "unparseable" THEN [raised |-> FALSE, dict |-> DefaultVerdict]
    ELSE [raised |-> FALSE, dict |-> resp.json]

(***************************************************************************)
(* schemas.py                                                              *)
(***************************************************************************)
\* ValidationResult(...): pydantic rejects a score outside 0..100
ValidationResultOk(score) == score >= 0 /\ score <= 100

ValidationResult(passed, score, issues, critique, guidance) ==
    [passed |-> passed, score |-> score, issues |-> issues,
     critique |-> critique, regeneration_guidance |-> guidance]

AssetIteration(num, image_data, mime_type, validation, status) ==
    [iteration_number |-> num, image_data |-> image_data, mime_type |-> mime_type,
     validation |-> validation, status |-> status]

(***************************************************************************)
(* AssetGenerator._generate_with_self_correction                           *)
(* The engine's locals are a record, so that each category task can run    *)
(* its own engine.                                                         *)
(***************************************************************************)
NewEngine(args) ==
    [pc |-> "generate", iteration_num |-> 1, iteration_history |-> <<>>,
     previous_issues |-> <<>>, final_image_data |-> <<>>,
     final_mime_type |-> "image/png", current_style |-> <<>>,
     image_bytes |-> <<>>, mime_type |-> "image/png",
     gen_calls |-> <<>>, val_calls |-> <<>>, args |-> args, asset |-> None]

\* current_style: the must-fix block appended to style_guidance (<<>>: none)
AugmentStyle(e) ==
    IF e.previous_issues # <<>> /\ e.iteration_num > 1
    THEN e.previous_issues
    ELSE e.current_style

\* mutant: every asset counts as self-corrected
SelfCorrectedAlways(history) == Len(history) >= 1

\* `self_corrected = len(iteration_history) > 1`
SelfCorrected(history) == Len(history) > 1

BuildAsset(e) ==
    [asset_type |-> e.args.asset_type, asset_name |-> e.args.asset_name,
     image_data |-> b64encode(e.final_image_data), mime_type |-> e.final_mime_type,
     width |-> e.args.width, height |-> e.args.height,
     description |-> Some(e.args.description), consistency_score |-> None,
     iteration_count |-> Len(e.iteration_history),
     iteration_history |-> e.iteration_history,
     self_corrected |-> SelfCorrected(e.iteration_history)]

Return(e) == [e EXCEPT !.pc = "returned", !.asset = Some(BuildAsset(e))]

\* mutant: the loop runs one iteration too many
NextIterationOneMore(e) ==
    IF e.iteration_num = MAX_ITERATIONS + 1
    THEN Return(e)
    ELSE [e EXCEPT !.iteration_num = @ + 1, !.pc = "generate"]

\* mutant: the loop goes on until a verdict passes (`while True`)
NextIterationUntilPassed(e) ==
    [e EXCEPT !.iteration_num = IF @ = MAX_ITERATIONS THEN @ ELSE @ + 1,
              !.pc = "generate"]

\* the end of the loop body: the next iteration, or the code after the loop
NextIteration(e) ==
    IF e.iteration_num = MAX_ITERATIONS
    THEN Return(e)
    ELSE [e EXCEPT !.iteration_num = @ + 1, !.pc = "generate"]

\* log of the generate_image calls: the style passed and what came back
GenCall(style, ok, image) == [style |-> style, ok |-> ok, image |-> image]

GenerateImageOk(e, image_bytes, mime_type) ==
    LET style == AugmentStyle(e)
    IN  [e EXCEPT !.current_style = style,
                  !.gen_calls = Append(@, GenCall(style, TRUE, image_bytes)),
                  !.image_bytes = image_bytes, !.mime_type = mime_type,
                  !.final_image_data = image_bytes, !.final_mime_type = mime_type,
                  !.pc = "validate"]

\* mutant: a failed generation on the last iteration is marked final
FailedRecordAccepted(num, err) ==
    AssetIteration(num, <<>>, "image/png",
        ValidationResult(FALSE, 0, <<[kind |-> "Generation failed", text |-> err]>>,
                         "Asset generation failed.",
                         Some("Retry generation with adjusted parameters.")),
        IF num = MAX_ITERATIONS THEN "final" ELSE "failed")

FailedRecord(num, err) ==
    AssetIteration(num, <<>>, "image/png",
        ValidationResult(FALSE, 0, <<[kind |-> "Generation failed", text |-> err]>>,
                         "Asset generation failed.",
                         Some("Retry generation with adjusted parameters.")),
        "failed")

\* mutant: a failed generation forgets the last image obtained
GenerateImageFailClobbers(e, err) ==
    LET style == AugmentStyle(e)
    IN  NextIteration(
          [e EXCEPT !.current_style = style,
                    !.gen_calls = Append(@, GenCall(style, FALSE, <<>>)),
                    !.final_image_data = <<>>,
                    !.iteration_history =
                        Append(@, AssetIteration(e.iteration_num, <<>>, "image/png",
                            ValidationResult(FALSE, 0,
                                <<[kind |-> "Generation failed", text |-> err]>>,
                                "Asset generation failed.",
                                Some("Retry generation with adjusted parameters.")),
                            "failed"))])

\* mutant: a failed generation leaves the loop
GenerateImageFailBreaks(e, err) ==
    LET style == AugmentStyle(e)
    IN  Return(
          [e EXCEPT !.current_style = style,
                    !.gen_calls = Append(@, GenCall(style, FALSE, <<>>)),
                    !.iteration_history =
                        Append(@, FailedRecord(e.iteration_num, err))])

\* mutant: the issue of the failed record is carried to the next iteration
GenerateImageFailCarries(e, err) ==
    LET style == AugmentStyle(e)
    IN  NextIteration(
          [e EXCEPT !.current_style = style,
                    !.gen_calls = Append(@, GenCall(style, FALSE, <<>>)),
                    !.previous_issues = FailedRecord(e.iteration_num, err).validation.issues,
                    !.iteration_history =
                        Append(@, FailedRecord(e.iteration_num, err))])

GenerateImageFail(e, err) ==
    LET style == AugmentStyle(e)
    IN  NextIteration(
          [e EXCEPT !.current_style = style,
                    !.gen_calls = Append(@, GenCall(style, FALSE, <<>>)),
                    !.iteration_history =
                        Append(@, FailedRecord(e.iteration_num, err))])

IterationStatus(passed, iteration_num) ==
    IF passed \/ iteration_num = MAX_ITERATIONS
    THEN (IF passed THEN "final" ELSE "passed")
    ELSE "failed"

\* regeneration guidance is carried as one more issue when it is truthy
CarriedIssues(issues, guidance) ==
    IF guidance # None /\ guidance[1] # ""
    THEN Append(issues, [kind |-> "Guidance", text |-> guidance[1]])
    ELSE issues

\* mutant: the break after a passed verdict is missing
StopsLoopNever(passed) == FALSE

\* `if passed: break`
StopsLoop(passed) == passed

\* mutant: the loop stops when the score reaches the threshold
ValidatedByScore(e, d) ==
    LET passed   == Get(d, "passed", TRUE)
        score    == Get(d, "score", 75)
        issues   == Get(d, "issues", <<>>)
        critique == Get(d, "critique", "Asset validated.")
        guidance == Get(d, "regeneration_guidance", None)
    IN  IF ~ValidationResultOk(score) THEN [e EXCEPT !.pc = "raised"]
        ELSE
          LET rec == AssetIteration(e.iteration_num, b64encode(e.image_bytes),
                        e.mime_type,
                        ValidationResult(passed, score, issues, critique, guidance),
                        IterationStatus(passed, e.iteration_num))
              e1  == [e EXCEPT !.iteration_history = Append(@, rec)]
          IN  IF score >= VALIDATION_THRESHOLD THEN Return(e1)
              ELSE NextIteration(
                     [e1 EXCEPT !.previous_issues = CarriedIssues(issues, guidance)])

Validated(e, d) ==
    LET passed   == Get(d, "passed", TRUE)
        score    == Get(d, "score", 75)
        issues   == Get(d, "issues", <<>>)
        critique == Get(d, "critique", "Asset validated.")
        guidance == Get(d, "regeneration_guidance", None)
    IN  IF ~ValidationResultOk(score) THEN [e EXCEPT !.pc = "raised"]
        ELSE
          LET rec == AssetIteration(e.iteration_num, b64encode(e.image_bytes),
                        e.mime_type,
                        ValidationResult(passed, score, issues, critique, guidance),
                        IterationStatus(passed, e.iteration_num))
              e1  == [e EXCEPT !.iteration_history = Append(@, rec)]
          IN  IF StopsLoop(passed) THEN Return(e1)
              ELSE NextIteration(
                     [e1 EXCEPT !.previous_issues = CarriedIssues(issues, guidance)])

\* log of the validate_and_critique calls: the iteration, the previous_issues
\* argument (none: None was passed) and the kind of answer that came back
ValCall(iteration_num, none, issues, answer) ==
    [iteration |-> iteration_num, none |-> none, issues |-> issues, answer |-> answer]

ValidateStep(e, resp) ==
    LET arg == IF e.iteration_num > 1
               THEN ValCall(e.iteration_num, FALSE, e.previous_issues, resp.kind)
               ELSE ValCall(e.iteration_num, TRUE, <<>>, resp.kind)
        e0  == [e EXCEPT !.val_calls = Append(@, arg)]
        r   == validate_and_critique(resp)
    IN  IF r.raised THEN [e0 EXCEPT !.pc = "raised"] ELSE Validated(e0, r.dict)

(***************************************************************************)
(* The category generators: the variants generate_complete_package and     *)
(* generate_category request, and the arguments of each engine call        *)
(***************************************************************************)
CategoryOrder == <<"logos", "social", "presentation", "email", "marketing">>

Categories == {CategoryOrder[i] : i \in 1..Len(CategoryOrder)}

content_types == <<"content", "two_column", "image_focus", "section">>

\* mutant: no place is reserved for the closing slide
SlideSequenceUnreserved(count) ==
    IF count <= 3
    THEN SubSeq(<<"title", "content", "closing">>, 1, count)
    ELSE SubSeq(<<"title">>
                \o [k \in 1..count |->
                      LET i == k - 1
                      IN  IF i % 4 = 0 /\ i > 0 THEN "section"
                          ELSE content_types[(i % Len(content_types)) + 1]]
                \o <<"closing">>, 1, count)

_get_slide_sequence(count) ==
    IF count <= 3
    THEN SubSeq(<<"title", "content", "closing">>, 1, count)
    ELSE SubSeq(<<"title">>
                \o [k \in 1..(count - 2) |->
                      LET i == k - 1
                      IN  IF i % 4 = 0 /\ i > 0 THEN "section"
                          ELSE content_types[(i % Len(content_types)) + 1]]
                \o <<"closing">>, 1, count)

CategoryVariants(c) ==
    CASE c = "logos"        -> <<"primary", "icon_only", "horizontal">>
      [] c = "social"       -> <<"instagram_post", "twitter_post", "linkedin_post">>
      [] c = "presentation" -> _get_slide_sequence(5)
      [] c = "email"        -> <<"welcome", "newsletter">>
      [] c = "marketing"    -> <<"banner", "flyer", "business_card">>

AssetTypeOf(c) ==
    CASE c = "logos"        -> "logo"
      [] c = "social"       -> "social_media"
      [] c = "presentation" -> "presentation"
      [] c = "email"        -> "email_template"
      [] c = "marketing"    -> "marketing"

NamePrefix(c) ==
    CASE c = "logos"        -> "logo"
      [] c = "social"       -> "social"
      [] c = "presentation" -> "slide"
      [] c = "email"        -> "email"
      [] c = "marketing"    -> "marketing"

\* (width, height) of a variant, as the prompt builders and generators set them
Dimensions(c, v) ==
    CASE c = "logos"        -> <<1024, 1024>>
      [] c = "presentation" -> <<1920, 1080>>
      [] c = "email"        -> <<600, 1000>>
      [] c = "social" ->
            (CASE v = "instagram_post" -> <<1080, 1080>>
               [] v = "twitter_post"   -> <<1200, 675>>
               [] v = "linkedin_post"  -> <<1200, 627>>
               [] OTHER                -> <<1080, 1080>>)
      [] c = "marketing" ->
            (CASE v = "flyer"         -> <<1080, 1400>>
               [] v = "business_card" -> <<1050, 600>>
               [] OTHER               -> <<1200, 400>>)

\* asset_name: f"logo_{variation}", f"slide_{i+1:02d}_{slide_type}", ...
AssetName(c, i) ==
    [prefix |-> NamePrefix(c),
     slide |-> IF c = "presentation" THEN i ELSE 0,
     variant |-> CategoryVariants(c)[i]]

\* the arguments of the engine call for variant i of category c
VariantArgs(c, i) ==
    [asset_type |-> AssetTypeOf(c), asset_name |-> AssetName(c, i),
     description |-> [describes |-> AssetName(c, i)],
     width |-> Dimensions(c, CategoryVariants(c)[i])[1],
     height |-> Dimensions(c, CategoryVariants(c)[i])[2]]

(***************************************************************************)
(* Scoring: GeminiService.score_asset_consistency, ConsistencyScore,       *)
(* AssetGenerator._score_asset and _compute_batch_score                    *)
(***************************************************************************)
ScoreFields == <<"overall_score", "color_adherence", "typography_compliance",
                 "tone_alignment", "layout_quality", "brand_recognition">>

ScoreKeys == {ScoreFields[i] : i \in 1..Len(ScoreFields)} \cup {"explanation"}

ScoreDict(keys, nums, explanation) ==
    [keys |-> keys, nums |-> nums, explanation |-> explanation]

Uniform(n) == [i \in 1..Len(ScoreFields) |-> n]

\* the dict score_asset_consistency returns when the text is no JSON
DefaultScoreDict ==
    ScoreDict(ScoreKeys, Uniform(75),
              "Asset generated successfully with standard brand compliance.")

score_asset_consistency(resp) ==
    IF resp.kind = "raise" THEN [raised |-> TRUE, dict |-> DefaultScoreDict]
    ELSE IF resp.kind = "unparseable" THEN [raised |-> FALSE, dict |-> DefaultScoreDict]
    ELSE [raised |-> FALSE, dict |-> resp.json]

\* ConsistencyScore(**score_data): every required field given and in 0..100
ConsistencyScoreOk(d) ==
    /\ ScoreKeys \subseteq d.keys
    /\ \A i \in 1..Len(ScoreFields) : d.nums[i] >= 0 /\ d.nums[i] <= 100

ConsistencyScore(nums, explanation) ==
    [overall_score |-> nums[1], color_adherence |-> nums[2],
     typography_compliance |-> nums[3], tone_alignment |-> nums[4],
     layout_quality |-> nums[5], brand_recognition |-> nums[6],
     explanation |-> explanation]

\* mutant: the fallback score is all zeros
FallbackScoreZero ==
    ConsistencyScore(Uniform(0),
        "Asset scored with default values due to evaluation error.")

FallbackScore ==
    ConsistencyScore(Uniform(75),
        "Asset scored with default values due to evaluation error.")

\* mutant: the scoring call is not guarded by try/except
ScoreAssetUnguarded(resp) ==
    LET r == score_asset_consistency(resp)
    IN  IF r.raised \/ ~ConsistencyScoreOk(r.dict)
        THEN [raised |-> TRUE, score |-> FallbackScore]
        ELSE [raised |-> FALSE,
              score |-> ConsistencyScore(r.dict.nums, r.dict.explanation)]

\* _score_asset: [raised, score]; the except branch makes raised always FALSE
ScoreAsset(resp) ==
    LET r == score_asset_consistency(resp)
    IN  IF r.raised \/ ~ConsistencyScoreOk(r.dict)
        THEN [raised |-> FALSE, score |-> FallbackScore]
        ELSE [raised |-> FALSE,
              score |-> ConsistencyScore(r.dict.nums, r.dict.explanation)]

\* mutant: the copy of the scoring loop leaves the score out
ScoredCopyUnscored(asset, score) ==
    [asset_type |-> asset.asset_type, asset_name |-> asset.asset_name,
     image_data |-> asset.image_data, mime_type |-> asset.mime_type,
     width |-> asset.width, height |-> asset.height,
     description |-> asset.description, consistency_score |-> None,
     iteration_count |-> 1, iteration_history |-> <<>>, self_corrected |-> FALSE]

\* GeneratedAsset(...) of the scoring loop: the fields it does not pass take
\* the defaults of the schema
ScoredCopy(asset, score) ==
    [asset_type |-> asset.asset_type, asset_name |-> asset.asset_name,
     image_data |-> asset.image_data, mime_type |-> asset.mime_type,
     width |-> asset.width, height |-> asset.height,
     description |-> asset.description, consistency_score |-> Some(score),
     iteration_count |-> 1, iteration_history |-> <<>>, self_corrected |-> FALSE]

RECURSIVE SumOf(_, _)
SumOf(seq, field) ==
    IF seq = <<>> THEN 0
    ELSE seq[1].consistency_score[1][field] + SumOf(Tail(seq), field)

IsScored(a) == a.consistency_score # None

Names(seq) == [i \in 1..Len(seq) |-> seq[i].asset_name]

\* mutant: the lists of names are not cut
FirstThreeUncut(seq) == seq

\* `[...][:3]`
FirstThree(seq) == SubSeq(seq, 1, IF Len(seq) < 3 THEN Len(seq) ELSE 3)

BatchScore(nums, summary, top, attention) ==
    [overall_score |-> nums[1], color_adherence |-> nums[2],
     typography_compliance |-> nums[3], tone_alignment |-> nums[4],
     layout_quality |-> nums[5], brand_recognition |-> nums[6],
     summary |-> summary, top_performers |-> top, needs_attention |-> attention]

SummaryBand(avg_overall) ==
    IF avg_overall >= 85 THEN "Excellent brand consistency"
    ELSE IF avg_overall >= 75 THEN "Good brand consistency"
    ELSE IF avg_overall >= 65 THEN "Moderate brand consistency"
    ELSE "Brand consistency needs improvement"

\* mutant: the sums are divided by the number of all assets
BatchScoreOverAll(assets) ==
    IF assets = <<>>
    THEN BatchScore(Uniform(0), [text |-> "No assets generated.", n |-> 0], <<>>, <<>>)
    ELSE
      LET scored_assets == SelectSeq(assets, IsScored)
      IN  IF scored_assets = <<>>
          THEN BatchScore(Uniform(75),
                          [text |-> "Assets generated successfully.", n |-> 0],
                          <<>>, <<>>)
          ELSE
            LET n    == Len(assets)
                avgs == [i \in 1..Len(ScoreFields) |->
                            SumOf(scored_assets, ScoreFields[i]) \div n]
                IsTop(a)  == a.consistency_score[1].overall_score >= 85
                IsLow(a)  == a.consistency_score[1].overall_score < 70
            IN  BatchScore(avgs, [text |-> SummaryBand(avgs[1]), n |-> n],
                           FirstThree(Names(SelectSeq(scored_assets, IsTop))),
                           FirstThree(Names(SelectSeq(scored_assets, IsLow))))

\* mutant: the empty list is not told apart from a list without scores
BatchScoreNoEmptyCase(assets) ==
    LET scored_assets == SelectSeq(assets, IsScored)
    IN  IF scored_assets = <<>>
        THEN BatchScore(Uniform(75),
                        [text |-> "Assets generated successfully.", n |-> 0],
                        <<>>, <<>>)
        ELSE
          LET n    == Len(scored_assets)
              avgs == [i \in 1..Len(ScoreFields) |->
                          SumOf(scored_assets, ScoreFields[i]) \div n]
              IsTop(a)  == a.consistency_score[1].overall_score >= 85
              IsLow(a)  == a.consistency_score[1].overall_score < 70
          IN  BatchScore(avgs, [text |-> SummaryBand(avgs[1]), n |-> n],
                         FirstThree(Names(SelectSeq(scored_assets, IsTop))),
                         FirstThree(Names(SelectSeq(scored_assets, IsLow))))

_compute_batch_score(assets) ==
    IF assets = <<>>
    THEN BatchScore(Uniform(0), [text |-> "No assets generated.", n |-> 0], <<>>, <<>>)
    ELSE
      LET scored_assets == SelectSeq(assets, IsScored)
      IN  IF scored_assets = <<>>
          THEN BatchScore(Uniform(75),
                          [text |-> "Assets generated successfully.", n |-> 0],
                          <<>>, <<>>)
          ELSE
            LET n    == Len(scored_assets)
                avgs == [i \in 1..Len(ScoreFields) |->
                            SumOf(scored_assets, ScoreFields[i]) \div n]
                IsTop(a)  == a.consistency_score[1].overall_score >= 85
                IsLow(a)  == a.consistency_score[1].overall_score < 70
            IN  BatchScore(avgs, [text |-> SummaryBand(avgs[1]), n |-> n],
                           FirstThree(Names(SelectSeq(scored_assets, IsTop))),
                           FirstThree(Names(SelectSeq(scored_assets, IsLow))))

(***************************************************************************)
(* One call of the engine                                                  *)
(***************************************************************************)
EngineCalls == {VariantArgs("logos", 1), VariantArgs("social", 2)}

IdlePkg == [pc |-> "idle"]

IdleEngine == [pc |-> "idle"]

IdleStream == [pc |-> "idle"]

IdleCall == [pc |-> "idle"]

EmptyCache == <<>>

Init ==
    /\ eng \in {NewEngine(a) : a \in EngineCalls}
    /\ pkg = IdlePkg
    /\ tasks = <<>>
    /\ cache = EmptyCache
    /\ stream = IdleStream
    /\ call = IdleCall

GenerateOk ==
    /\ eng.pc = "generate"
    /\ \E r \in GenResults : eng' = GenerateImageOk(eng, r[1], r[2])
    /\ UNCHANGED <<call, pkg, tasks, cache, stream>>

GenerateFail ==
    /\ eng.pc = "generate"
    /\ \E err \in GenErrors : eng' = GenerateImageFail(eng, err)
    /\ UNCHANGED <<call, pkg, tasks, cache, stream>>

Validate ==
    /\ eng.pc = "validate"
    /\ \E resp \in ValResponses : eng' = ValidateStep(eng, resp)
    /\ UNCHANGED <<call, pkg, tasks, cache, stream>>

Next == GenerateOk \/ GenerateFail \/ Validate

Spec == Init /\ [][Next]_vars

(***************************************************************************)
(* The brand analysis and its cache                                        *)
(***************************************************************************)
\* BrandGuidelines: the name keys the cache; campaign: any campaign field set
Brands == {[brand_name |-> "Acme", campaign |-> b] : b \in BOOLEAN}

Markdown == {"**", "*", "##", "#"}

NotMarkdown(tok) == tok \notin Markdown

\* what the text model answers to the analysis prompt
AnalysisResponses ==
    {[kind |-> "raise", text |-> <<>>],
     [kind |-> "text", text |-> <<"##", "the essence", "**", "visual direction">>]}

analyze_brand(resp) ==
    IF resp.kind = "raise" THEN [raised |-> TRUE, text |-> <<>>]
    ELSE [raised |-> FALSE, text |-> SelectSeq(resp.text, NotMarkdown)]

\* mutant: the cache is never consulted
CacheMissAlways(c, k) == TRUE

\* `if cache_key not in self._brand_analysis_cache`
CacheMiss(c, k) == k \notin DOMAIN c

(***************************************************************************)
(* A category task: generate_logos, generate_social_media_templates,       *)
(* generate_presentation_deck, generate_email_templates,                   *)
(* generate_marketing_materials                                            *)
(***************************************************************************)
\* what the gateway answers inside a package request
PkgGenResults == {<<(<<137, 80>>), "image/png">>}

PkgValResponses ==
    {[kind |-> "raise", json |-> DefaultVerdict],
     [kind |-> "json", json |-> Dict(VerdictKeys, TRUE, 85, <<>>, "critique", None)]}

\* trace: what the task was answered, in order (the gateway's answers and
\* the outcomes of the prompt builder), kept when the request is recorded
NewTask(c, n, record) ==
    [pc |-> "start", category |-> c, n |-> n, idx |-> 0, eng |-> IdleEngine,
     assets |-> <<>>, brand_analysis |-> <<>>, package |-> None, error |-> None,
     record |-> record, trace |-> <<>>]

Traced(t, kind, resp) ==
    IF t.record
    THEN [t EXCEPT !.trace = Append(@, [kind |-> kind, resp |-> resp])]
    ELSE t

GeneratedNote(c, count) == [kind |-> "Generated", category |-> c, count |-> count]

AssetPackage(brand_name, assets, brand_analysis, notes, batch_score, campaign) ==
    [brand_name |-> brand_name, assets |-> assets, brand_analysis |-> brand_analysis,
     generation_notes |-> notes, batch_score |-> batch_score, campaign |-> campaign]

\* the top of the variant loop: the prompt is built outside the try block, so
\* an exception of the prompt builder leaves the category task
BeginVariant(t, brand, i, promptOk) ==
    IF i > t.n
    THEN [t EXCEPT !.pc = "done", !.idx = i, !.eng = IdleEngine,
                   !.package = Some(AssetPackage(brand.brand_name, t.assets,
                                      t.brand_analysis,
                                      <<GeneratedNote(t.category, Len(t.assets))>>,
                                      None, None))]
    ELSE IF ~promptOk
    THEN [Traced(t, "prompt", promptOk) EXCEPT
                   !.pc = "raised", !.idx = i, !.eng = IdleEngine,
                   !.error = Some("prompt builder failed")]
    ELSE [Traced(t, "prompt", promptOk) EXCEPT
                   !.pc = "engine", !.idx = i,
                   !.eng = NewEngine(VariantArgs(t.category, i))]

\* after a step of the engine: append the asset, or skip the variant when
\* the engine raised, and go on with the next variant
\* mutant: an exception of the engine leaves the category generator
AfterEngineAborts(t, brand, e, promptOk) ==
    IF e.pc = "returned"
    THEN BeginVariant([t EXCEPT !.assets = Append(@, e.asset[1])],
                      brand, t.idx + 1, promptOk)
    ELSE IF e.pc = "raised"
    THEN [t EXCEPT !.pc = "raised", !.eng = IdleEngine,
                   !.error = Some("engine failed")]
    ELSE [t EXCEPT !.eng = e]

AfterEngine(t, brand, e, promptOk) ==
    IF e.pc = "returned"
    THEN BeginVariant([t EXCEPT !.assets = Append(@, e.asset[1])],
                      brand, t.idx + 1, promptOk)
    ELSE IF e.pc = "raised"
    THEN BeginVariant(t, brand, t.idx + 1, promptOk)
    ELSE [t EXCEPT !.eng = e]

(***************************************************************************)
(* AssetGenerator.generate_complete_package                                *)
(***************************************************************************)
RECURSIVE PlanSize(_, _)
PlanSize(plan, S) ==
    IF S = {} THEN 0
    ELSE LET c == CHOOSE x \in S : TRUE
         IN  plan[c] + PlanSize(plan, S \ {c})

\* the requests of the model: the enabled categories (include_* flags) and
\* how many of each category's variants are generated
Plans ==
    UNION {{plan \in [S -> 1..MaxAssets] :
               /\ PlanSize(plan, S) <= MaxAssets
               /\ \A c \in S : plan[c] <= Len(CategoryVariants(c))} :
           S \in SUBSET Categories}

\* finished: the categories whose task has returned or raised, in the order
\* in which they finished
NewPackage(brand, plan) ==
    [pc |-> "analysis", brand |-> brand, plan |-> plan, brand_analysis |-> <<>>,
     analysis_calls |-> 0, launched |-> FALSE, all_assets |-> <<>>,
     generation_notes |-> <<>>, scored_assets |-> <<>>, score_calls |-> <<>>,
     batch_score |-> None, package |-> None, record |-> FALSE,
     finished |-> <<>>]

InitPackage ==
    /\ eng = IdleEngine
    /\ stream = IdleStream
    /\ call = IdleCall
    /\ cache = EmptyCache
    /\ tasks = <<>>
    /\ \E brand \in Brands, plan \in Plans : pkg = NewPackage(brand, plan)

\* tasks.append(...) for every include_* flag, then asyncio.gather starts them
Launch(p) == [c \in DOMAIN p.plan |-> NewTask(c, p.plan[c], p.record)]

Launched(p, analysis) ==
    [p EXCEPT !.pc = "gather", !.brand_analysis = analysis, !.launched = TRUE]

\* mutant: the analysis is not computed before the tasks are launched
GetBrandAnalysisSkipped ==
    /\ pkg.pc = "analysis"
    /\ pkg' = [pkg EXCEPT !.pc = "gather", !.launched = TRUE]
    /\ tasks' = Launch(pkg)
    /\ UNCHANGED <<call, eng, cache, stream>>

\* `brand_analysis = await self._get_brand_analysis(brand_guidelines)`, then
\* the tasks are built and started. The gateway is called when the brand name
\* is not a key of the cache; its failure leaves generate_complete_package.
GetBrandAnalysis ==
    /\ pkg.pc = "analysis"
    /\ IF CacheMiss(cache, pkg.brand.brand_name)
       THEN \E resp \in AnalysisResponses :
              LET r == analyze_brand(resp)
                  p == [pkg EXCEPT !.analysis_calls = @ + 1]
              IN  IF r.raised
                  THEN /\ pkg' = [p EXCEPT !.pc = "raised"]
                       /\ UNCHANGED <<tasks, cache>>
                  ELSE /\ cache' = (pkg.brand.brand_name :> r.text) @@ cache
                       /\ pkg' = Launched(p, cache'[pkg.brand.brand_name])
                       /\ tasks' = Launch(pkg)
       ELSE /\ pkg' = Launched(pkg, cache[pkg.brand.brand_name])
            /\ tasks' = Launch(pkg)
            /\ UNCHANGED cache
    /\ UNCHANGED <<call, eng, stream>>

\* a task that has returned or raised is entered in the order of finishing
NoteFinished(p, t) ==
    IF t.pc \in {"done", "raised"}
    THEN [p EXCEPT !.finished = Append(@, t.category)]
    ELSE p

\* the first statement of a category generator is its own call of
\* _get_brand_analysis; then the variant loop begins
TaskStart(c) ==
    /\ pkg.pc = "gather"
    /\ tasks[c].pc = "start"
    /\ LET k == pkg.brand.brand_name
       IN  IF CacheMiss(cache, k)
           THEN \E resp \in AnalysisResponses, promptOk \in BOOLEAN :
                  LET r == analyze_brand(resp)
                  IN  /\ IF r.raised
                         THEN /\ tasks' = [tasks EXCEPT ![c].pc = "raised",
                                             ![c].error = Some("analysis failed")]
                              /\ UNCHANGED cache
                         ELSE /\ cache' = (k :> r.text) @@ cache
                              /\ tasks' = [tasks EXCEPT ![c] =
                                     BeginVariant([@ EXCEPT !.brand_analysis = cache'[k]],
                                                  pkg.brand, 1, promptOk)]
                      /\ pkg' = NoteFinished([pkg EXCEPT !.analysis_calls = @ + 1],
                                             tasks'[c])
           ELSE /\ \E promptOk \in BOOLEAN :
                     tasks' = [tasks EXCEPT ![c] =
                                 BeginVariant([@ EXCEPT !.brand_analysis = cache[k]],
                                              pkg.brand, 1, promptOk)]
                /\ pkg' = NoteFinished(pkg, tasks'[c])
                /\ UNCHANGED cache
    /\ UNCHANGED <<call, eng, stream>>

TaskGenerateOk(c) ==
    /\ pkg.pc = "gather"
    /\ tasks[c].pc = "engine"
    /\ tasks[c].eng.pc = "generate"
    /\ \E r \in PkgGenResults, promptOk \in BOOLEAN :
         tasks' = [tasks EXCEPT ![c] =
                     AfterEngine(Traced(@, "generated", r), pkg.brand,
                                 GenerateImageOk(@.eng, r[1], r[2]), promptOk)]
    /\ pkg' = NoteFinished(pkg, tasks'[c])
    /\ UNCHANGED <<call, eng, cache, stream>>

TaskGenerateFail(c) ==
    /\ pkg.pc = "gather"
    /\ tasks[c].pc = "engine"
    /\ tasks[c].eng.pc = "generate"
    /\ \E err \in GenErrors, promptOk \in BOOLEAN :
         tasks' = [tasks EXCEPT ![c] =
                     AfterEngine(Traced(@, "not generated", err), pkg.brand,
                                 GenerateImageFail(@.eng, err), promptOk)]
    /\ pkg' = NoteFinished(pkg, tasks'[c])
    /\ UNCHANGED <<call, eng, cache, stream>>

TaskValidate(c) ==
    /\ pkg.pc = "gather"
    /\ tasks[c].pc = "engine"
    /\ tasks[c].eng.pc = "validate"
    /\ \E resp \in PkgValResponses, promptOk \in BOOLEAN :
         tasks' = [tasks EXCEPT ![c] =
                     AfterEngine(Traced(@, "validated", resp), pkg.brand,
                                 ValidateStep(@.eng, resp), promptOk)]
    /\ pkg' = NoteFinished(pkg, tasks'[c])
    /\ UNCHANGED <<call, eng, cache, stream>>

\* one step of the category task c; the tasks take turns at every gateway
\* call, which includes every schedule the event loop produces
TaskStep(c) ==
    TaskStart(c) \/ TaskGenerateOk(c) \/ TaskGenerateFail(c) \/ TaskValidate(c)

\* mutant: the enabled categories are taken in the opposite order
EnabledOrderReversed(p) ==
    LET order == SelectSeq(CategoryOrder, LAMBDA c : c \in DOMAIN p.plan)
    IN  [i \in 1..Len(order) |-> order[Len(order) + 1 - i]]

\* mutant: the results are taken in the order in which the tasks finished
\* (asyncio.as_completed)
FinishOrder(p) == p.finished

\* the enabled categories in the order of the include_* tests: the order of
\* the results of asyncio.gather and of the stream's category loop
EnabledOrder(p) == SelectSeq(CategoryOrder, LAMBDA c : c \in DOMAIN p.plan)

ErrorNote(text) == [kind |-> "Error", category |-> text, count |-> 0]

\* mutant: the collection loop stops at the first exception
RECURSIVE MergeStopsAtError(_, _, _)
MergeStopsAtError(order, ts, acc) ==
    IF order = <<>> THEN acc
    ELSE LET t == ts[order[1]]
         IN  IF t.pc = "raised"
             THEN [acc EXCEPT !.notes = Append(@, ErrorNote(t.error[1]))]
             ELSE MergeStopsAtError(Tail(order), ts,
                    [assets |-> acc.assets \o t.package[1].assets,
                     notes |-> acc.notes \o t.package[1].generation_notes])

\* `for result in results`: an exception becomes a note, a package gives
\* its assets and its notes
RECURSIVE Merge(_, _, _)
Merge(order, ts, acc) ==
    IF order = <<>> THEN acc
    ELSE LET t == ts[order[1]]
         IN  IF t.pc = "raised"
             THEN Merge(Tail(order), ts,
                        [acc EXCEPT !.notes = Append(@, ErrorNote(t.error[1]))])
             ELSE Merge(Tail(order), ts,
                        [assets |-> acc.assets \o t.package[1].assets,
                         notes |-> acc.notes \o t.package[1].generation_notes])

\* what the text model answers to the campaign-theme prompt
ThemeResponses == {[kind |-> "raise"], [kind |-> "text"]}

_generate_campaign_theme(resp, asset_count) ==
    IF resp.kind = "raise"
    THEN [kind |-> "fallback", asset_count |-> asset_count]
    ELSE [kind |-> "generated", asset_count |-> asset_count]

asset_type_map(asset_type) ==
    CASE asset_type = "logo"           -> "Upload logo"
      [] asset_type = "social_media"   -> "Schedule social media posts"
      [] asset_type = "presentation"   -> "Use presentation deck"
      [] asset_type = "email_template" -> "Import email templates"
      [] asset_type = "marketing"      -> "Deploy marketing materials"

_build_campaign_context(resp, assets) ==
    [unified_theme |-> _generate_campaign_theme(resp, Len(assets)),
     asset_items |-> {asset_type_map(assets[i].asset_type) : i \in 1..Len(assets)},
     campaign_items |-> <<"Ensure all assets prominently feature the message",
                          "Review all assets for brand consistency before launch",
                          "Set up tracking/analytics for campaign performance">>]

CampaignRequested(brand) == brand.campaign

ReturnPackage(p, campaign) ==
    [p EXCEPT !.pc = "returned",
              !.package = Some(AssetPackage(p.brand.brand_name, p.scored_assets,
                                            p.brand_analysis, p.generation_notes,
                                            p.batch_score, campaign))]

\* after the scoring loop: the batch score, then the campaign context if asked
AfterScoring(p) ==
    LET q == [p EXCEPT !.batch_score = Some(_compute_batch_score(p.scored_assets))]
    IN  IF CampaignRequested(q.brand)
        THEN [q EXCEPT !.pc = "campaign"]
        ELSE ReturnPackage(q, None)

\* mutant: the results are merged as soon as one task has finished
\* (asyncio.wait with FIRST_COMPLETED), the others being left behind
FanInFirstCompleted ==
    /\ pkg.pc = "gather"
    /\ \E c \in DOMAIN tasks : tasks[c].pc \in {"done", "raised"}
    /\ LET order == SelectSeq(EnabledOrder(pkg),
                              LAMBDA c : tasks[c].pc \in {"done", "raised"})
           m == Merge(order, tasks, [assets |-> <<>>, notes |-> <<>>])
           p == [pkg EXCEPT !.all_assets = m.assets, !.generation_notes = m.notes]
       IN  pkg' = IF m.assets = <<>> THEN AfterScoring(p)
                  ELSE [p EXCEPT !.pc = "score"]
    /\ UNCHANGED <<call, eng, tasks, cache, stream>>

\* asyncio.gather returns once every task has returned or raised
FanIn ==
    /\ pkg.pc = "gather"
    /\ \A c \in DOMAIN tasks : tasks[c].pc \in {"done", "raised"}
    /\ LET m == Merge(EnabledOrder(pkg), tasks, [assets |-> <<>>, notes |-> <<>>])
           p == [pkg EXCEPT !.all_assets = m.assets, !.generation_notes = m.notes]
       IN  pkg' = IF m.assets = <<>> THEN AfterScoring(p)
                  ELSE [p EXCEPT !.pc = "score"]
    /\ UNCHANGED <<call, eng, tasks, cache, stream>>

\* what the text model answers to a scoring prompt
ScoreResponses ==
    {[kind |-> "raise", json |-> DefaultScoreDict],
     [kind |-> "json", json |-> ScoreDict(ScoreKeys, <<88, 90, 85, 92, 80, 95>>, "strong")],
     [kind |-> "json", json |-> ScoreDict(ScoreKeys, <<101, 90, 85, 92, 80, 95>>, "over")]}

\* one turn of the scoring loop
ScoreNext ==
    /\ pkg.pc = "score"
    /\ \E resp \in ScoreResponses :
         LET asset == pkg.all_assets[Len(pkg.scored_assets) + 1]
             r     == ScoreAsset(resp)
             p     == [pkg EXCEPT !.score_calls = Append(@, asset.asset_name)]
             q     == [p EXCEPT !.scored_assets = Append(@, ScoredCopy(asset, r.score))]
         IN  pkg' = IF r.raised THEN [p EXCEPT !.pc = "raised"]
                    ELSE IF Len(q.scored_assets) = Len(q.all_assets)
                    THEN AfterScoring(q)
                    ELSE q
    /\ UNCHANGED <<call, eng, tasks, cache, stream>>

CampaignTheme ==
    /\ pkg.pc = "campaign"
    /\ \E resp \in ThemeResponses :
         pkg' = ReturnPackage(pkg,
                  Some(_build_campaign_context(resp, pkg.scored_assets)))
    /\ UNCHANGED <<call, eng, tasks, cache, stream>>

NextPackage ==
    \/ GetBrandAnalysis
    \/ \E c \in DOMAIN tasks : TaskStep(c)
    \/ FanIn
    \/ ScoreNext
    \/ CampaignTheme

SpecPackage == InitPackage /\ [][NextPackage]_vars

\* every gateway call returns or raises, and the event loop resumes the
\* coroutine that awaited it: a step that can be taken is eventually taken
SpecPackageFair == SpecPackage /\ WF_vars(NextPackage)

(***************************************************************************)
(* The correction engine: properties of one call                           *)
(***************************************************************************)
History == eng.iteration_history

\* the iterations whose generate_image call returned an image
OkIterations == {i \in 1..Len(eng.gen_calls) : eng.gen_calls[i].ok}

\* the records appended after a successful generation
ValidatedRecords == {i \in 1..Len(History) : History[i].image_data # <<>>}

HasPassedRecord == \E i \in 1..Len(History) : History[i].validation.passed

MaxOf(S) == CHOOSE m \in S : \A x \in S : x <= m

\* C1: one engine call never holds more than MAX_ITERATIONS = 3 iteration
\* records and issues at most 3 image-generation and 3 validation calls.
C1_BoundedIterations ==
    /\ Len(History) <= MAX_ITERATIONS
    /\ Len(eng.gen_calls) <= MAX_ITERATIONS
    /\ Len(eng.val_calls) <= MAX_ITERATIONS

C1_Witness ==
    /\ eng.pc = "returned"
    /\ Len(History) = 3
    /\ Len(eng.gen_calls) = 3
    /\ Len(eng.val_calls) = 3

\* C2: the loop stops at the first passed verdict: the record carrying it is
\* the last of the history, the engine has returned, and from then on no
\* generation or validation call is issued (the engine's state is frozen).
C2_StopsAtFirstPass ==
    /\ [](HasPassedRecord =>
            /\ eng.pc = "returned"
            /\ History[Len(History)].validation.passed
            /\ \A i \in 1..(Len(History) - 1) : ~History[i].validation.passed)
    /\ [][HasPassedRecord => eng' = eng]_vars

C2_Witness ==
    /\ HasPassedRecord
    /\ Len(History) = 2
    /\ Len(eng.gen_calls) = 2
    /\ Len(eng.val_calls) = 2

\* C3 (as claimed): a record appended after a successful generation has
\* status final if its verdict passed or it is iteration MAX_ITERATIONS,
\* and failed otherwise.
C3_StatusAsClaimed ==
    \A i \in ValidatedRecords :
        History[i].status =
            IF History[i].validation.passed
               \/ History[i].iteration_number = MAX_ITERATIONS
            THEN "final" ELSE "failed"

\* C4: when generate_image fails on all 3 iterations the engine returns an
\* asset with an empty payload and iteration_count 3, whose 3 records are all
\* failed, and validation is never called.
C4_AllGenerationsFail ==
    (Len(eng.gen_calls) = MAX_ITERATIONS /\ OkIterations = {}) =>
        /\ eng.pc = "returned"
        /\ eng.asset[1].image_data = <<>>
        /\ eng.asset[1].iteration_count = 3
        /\ Len(eng.asset[1].iteration_history) = 3
        /\ \A i \in 1..3 : eng.asset[1].iteration_history[i].status = "failed"
        /\ eng.val_calls = <<>>

C4_Witness ==
    /\ Len(eng.gen_calls) = MAX_ITERATIONS
    /\ OkIterations = {}
    /\ eng.pc = "returned"

\* C5 (as claimed): the engine raises only if every one of its iterations
\* raised; when some iteration did not raise it returns an asset.
C5_RaisesOnlyIfAllRaised ==
    eng.pc = "raised" => ValidatedRecords = {}

\* C6: the returned payload is the (base64) image of the last iteration whose
\* generation succeeded, whatever happened to it afterwards, and is empty
\* only if no generation succeeded.
C6_LastObtainedImage ==
    eng.pc = "returned" =>
        /\ OkIterations # {} =>
              /\ eng.asset[1].image_data =
                     b64encode(eng.gen_calls[MaxOf(OkIterations)].image)
              /\ eng.asset[1].image_data # <<>>
        /\ OkIterations = {} => eng.asset[1].image_data = <<>>

C6_Witness ==
    /\ eng.pc = "returned"
    /\ 1 \in OkIterations
    /\ 2 \in OkIterations
    /\ 3 \notin OkIterations
    /\ eng.gen_calls[1].image # eng.gen_calls[2].image
    /\ ~HasPassedRecord
    /\ eng.asset[1].image_data = b64encode(eng.gen_calls[2].image)

(***************************************************************************)
(* The complete package: properties of one generate_complete_package call  *)
(***************************************************************************)
Elems(seq) == {seq[i] : i \in 1..Len(seq)}

DoneTasks == {c \in DOMAIN tasks : tasks[c].pc = "done"}

RaisedTasks == {c \in DOMAIN tasks : tasks[c].pc = "raised"}

\* the assets of the category packages the category generators returned
CategoryAssets == UNION {Elems(tasks[c].package[1].assets) : c \in DoneTasks}

\* the assets of the package generate_complete_package returned
PackageAssets == IF pkg.package = None THEN {} ELSE Elems(pkg.package[1].assets)

HandedAssets == CategoryAssets \cup PackageAssets

\* C7 (as claimed): every asset handed to a caller has iteration_count equal
\* to the length of its iteration_history.
C7_CountIsHistoryLength ==
    \A a \in HandedAssets : a.iteration_count = Len(a.iteration_history)

\* C8: every asset handed to a caller has self_corrected true exactly when
\* its iteration_count exceeds 1.
C8_SelfCorrectedIffRetried ==
    \A a \in HandedAssets : a.self_corrected <=> (a.iteration_count > 1)

C8_Witness ==
    /\ pkg.pc = "returned"
    /\ \E a \in CategoryAssets : a.self_corrected /\ a.iteration_count = 3
    /\ \E a \in CategoryAssets : ~a.self_corrected /\ a.iteration_count = 1
    /\ PackageAssets # {}

Carries(assets, a) ==
    \E b \in assets : b.asset_name = a.asset_name /\ b.image_data = a.image_data

\* C9: a category task that raises neither cancels nor blocks the others:
\* its raising step changes no other task, every unfinished task can still
\* take its next step, generate_complete_package does not raise, and the
\* returned package carries every asset the other categories produced and
\* one Error note per failed task.
C9_FailureIsolated ==
    /\ [](RaisedTasks # {} =>
            /\ pkg.pc # "raised"
            /\ \A d \in DOMAIN tasks :
                 (pkg.pc = "gather" /\ tasks[d].pc \notin {"done", "raised"})
                    => ENABLED TaskStep(d)
            /\ pkg.pc = "returned" =>
                 /\ \A a \in CategoryAssets : Carries(PackageAssets, a)
                 /\ \A c \in RaisedTasks :
                      ErrorNote(tasks[c].error[1])
                         \in Elems(pkg.package[1].generation_notes)
                 /\ Cardinality({i \in 1..Len(pkg.package[1].generation_notes) :
                                   pkg.package[1].generation_notes[i].kind = "Error"})
                      = Cardinality(RaisedTasks))
    /\ [][\A c \in DOMAIN tasks :
            (tasks[c].pc # "raised" /\ tasks'[c].pc = "raised")
               => \A d \in DOMAIN tasks \ {c} : tasks'[d] = tasks[d]]_vars

C9_Witness ==
    /\ pkg.pc = "returned"
    /\ \E c \in RaisedTasks, d \in DoneTasks :
         /\ tasks[d].package[1].assets # <<>>
         /\ \A a \in Elems(tasks[d].package[1].assets) : Carries(PackageAssets, a)
    /\ \E i \in 1..Len(pkg.package[1].generation_notes) :
         pkg.package[1].generation_notes[i].kind = "Error"

AnalysisFailed ==
    pkg.analysis_calls = 1 /\ pkg.brand.brand_name \notin DOMAIN cache

\* C10: generate_complete_package raises exactly when the brand-analysis
\* call fails, and then no category task was launched and no package is
\* returned; no generation, validation, scoring or campaign-theme failure
\* makes it raise.
C10_OnlyAnalysisPropagates ==
    /\ pkg.pc = "raised" <=> AnalysisFailed
    /\ pkg.pc = "raised" =>
         /\ ~pkg.launched
         /\ tasks = <<>>
         /\ pkg.package = None

\* a returned package whose request met a failed generation, a validation
\* call that raised (the variant is skipped), a failed scoring call and a
\* failed campaign-theme call
C10_Witness ==
    /\ pkg.pc = "returned"
    /\ \E a \in CategoryAssets :
         \E i \in 1..Len(a.iteration_history) : a.iteration_history[i].image_data = <<>>
    /\ \E c \in DoneTasks : Len(tasks[c].package[1].assets) < tasks[c].n
    /\ \E a \in PackageAssets : a.consistency_score = Some(FallbackScore)
    /\ pkg.package[1].campaign # None
    /\ pkg.package[1].campaign[1].unified_theme.kind = "fallback"

\* C11 (as claimed): every asset of a package returned by a category generator
\* or by generate_complete_package has a non-empty image payload, and the
\* 'Generated N' note counts only variants for which an image was obtained.
C11_EveryAssetHasPayload ==
    /\ \A a \in HandedAssets : a.image_data # <<>>
    /\ \A c \in DoneTasks :
         tasks[c].package[1].generation_notes[1].count
            = Cardinality({i \in 1..Len(tasks[c].package[1].assets) :
                             tasks[c].package[1].assets[i].image_data # <<>>})

(***************************************************************************)
(* AssetGenerator._get_brand_analysis called by several requests of one    *)
(* process: the callers are coroutines of one event loop.  A coroutine     *)
(* runs until it suspends, and GeminiService.analyze_brand contains no     *)
(* await (its model call is a blocking call), so nothing else runs between *)
(* the test of the cache and the store.                                    *)
(***************************************************************************)
MaxCallers == 3

BrandNames == {"Acme", "Bolt"}

\* what the text model answers to the analysis prompt of a caller
CallerResponses ==
    AnalysisResponses \cup {[kind |-> "text", text |-> <<"#", "another essence">>]}

\* the guidelines of a caller: requests for the same brand name may differ in
\* everything else (colours, tone, values, ...)
GuidelineContents == {"first edition", "second edition"}

CallerGuidelines == [brand_name : BrandNames, content : GuidelineContents]

\* mutant: the key is the whole of the guidelines
CacheKeyByContent(g) == g

\* `cache_key = brand_guidelines.brand_name`
CacheKey(g) == g.brand_name

NewCaller(g) ==
    [pc |-> "start", guidelines |-> g, cache_key |-> CacheKey(g),
     called |-> FALSE, result |-> None]

\* mutant: the cache keeps the latest analysis only
CachedLatestOnly(c, k, r) == IF r.raised THEN c ELSE (k :> r.text)

\* mutant: a failed analysis is stored as an empty analysis
CachedOnRaise(c, k, r) == (k :> r.text) @@ c

\* `self._brand_analysis_cache[cache_key] = analysis`, which a raising
\* analyze_brand does not reach
Cached(c, k, r) == IF r.raised THEN c ELSE (k :> r.text) @@ c

InitCache ==
    /\ eng = IdleEngine
    /\ stream = IdleStream
    /\ call = IdleCall
    /\ pkg = IdlePkg
    /\ cache = EmptyCache
    /\ tasks \in [1..MaxCallers -> {NewCaller(g) : g \in CallerGuidelines}]

\* the coroutines inside analyze_brand: the event loop runs nothing else
Running == {a \in DOMAIN tasks : tasks[a].pc = "analyze"}

\* a caller enters _get_brand_analysis and tests the cache
TestCache(a) ==
    /\ tasks[a].pc = "start"
    /\ Running = {}
    /\ LET k == tasks[a].cache_key
       IN  tasks' = [tasks EXCEPT ![a] =
                       IF CacheMiss(cache, k)
                       THEN [@ EXCEPT !.pc = "analyze", !.called = TRUE]
                       ELSE [@ EXCEPT !.pc = "returned",
                                      !.result = Some(cache[k])]]
    /\ UNCHANGED <<call, eng, pkg, cache, stream>>

\* analyze_brand returns or raises; the analysis is stored and read back
AnalysisReturns(a) ==
    /\ tasks[a].pc = "analyze"
    /\ \E resp \in CallerResponses :
         LET r == analyze_brand(resp)
             k == tasks[a].cache_key
         IN  /\ cache' = Cached(cache, k, r)
             /\ tasks' = IF r.raised
                         THEN [tasks EXCEPT ![a].pc = "raised"]
                         ELSE [tasks EXCEPT ![a].pc = "returned",
                                            ![a].result = Some(cache'[k])]
    /\ UNCHANGED <<call, eng, pkg, stream>>

NextCache == \E a \in DOMAIN tasks : TestCache(a) \/ AnalysisReturns(a)

SpecCache == InitCache /\ [][NextCache]_vars

(***************************************************************************)
(* The brand-analysis cache: properties                                    *)
(***************************************************************************)
CallersOf(k) == {a \in DOMAIN tasks : tasks[a].cache_key = k}

ReturnedOf(k) == {a \in CallersOf(k) : tasks[a].pc = "returned"}

\* the gateway's analysis calls issued for the brand name k
UpstreamCalls(k) == Cardinality({a \in CallersOf(k) : tasks[a].called})

\* C12: calls of _get_brand_analysis with the same brand name that run one
\* after the other return the same analysis, and between them invoke the
\* gateway's analysis call exactly once (the one that found the cache empty).
C12_SameValueOneCall ==
    \A k \in BrandNames :
      ReturnedOf(k) # {} =>
        /\ \A a, b \in ReturnedOf(k) : tasks[a].result = tasks[b].result
        /\ \A a \in ReturnedOf(k) : tasks[a].result = Some(cache[k])
        /\ Cardinality({a \in ReturnedOf(k) : tasks[a].called}) = 1

C12_Witness ==
    \E a, b \in DOMAIN tasks :
      /\ a # b
      /\ tasks[a].cache_key = tasks[b].cache_key
      /\ tasks[a].pc = "returned" /\ tasks[b].pc = "returned"
      /\ tasks[a].called /\ ~tasks[b].called
      /\ tasks[a].result = tasks[b].result
      /\ tasks[a].result # Some(<<>>)

\* C13 (as claimed): the await of the analysis call is a suspension point at
\* which a second call for the same uncached brand name tests the cache, so
\* that both invoke the gateway: while one caller is inside the analysis
\* call, another caller of the same name can take its cache test, and two
\* callers inside the analysis call have both invoked the gateway.
C13_InterleavesAtAnalysisCall ==
    \A a, b \in DOMAIN tasks :
      (a # b /\ tasks[a].cache_key = tasks[b].cache_key) =>
        /\ (tasks[a].pc = "analyze" /\ tasks[b].pc = "start")
              => ENABLED TestCache(b)
        /\ (tasks[a].pc = "analyze" /\ tasks[b].pc = "analyze")
              => UpstreamCalls(tasks[a].cache_key) >= 2

(***************************************************************************)
(* The complete package: the analysis of one request                       *)
(***************************************************************************)
\* C14: in one generate_complete_package request that starts with an empty
\* cache the gateway's analysis call is issued exactly once, before any
\* category task exists, and every category task that has started holds the
\* analysis it read from the cache, whatever the interleaving of the tasks.
C14_AnalysisOncePerRequest ==
    /\ pkg.analysis_calls <= 1
    /\ ~pkg.launched => tasks = <<>>
    /\ pkg.launched =>
         /\ pkg.analysis_calls = 1
         /\ ~CacheMiss(cache, pkg.brand.brand_name)
         /\ pkg.brand_analysis = cache[pkg.brand.brand_name]
         /\ \A c \in DOMAIN tasks :
              tasks[c].pc # "start"
                 => tasks[c].brand_analysis = cache[pkg.brand.brand_name]

C14_Witness ==
    /\ pkg.pc = "returned"
    /\ pkg.analysis_calls = 1
    /\ Cardinality(DoneTasks) >= 2
    /\ \A c \in DoneTasks :
         /\ tasks[c].package[1].assets # <<>>
         /\ tasks[c].package[1].brand_analysis = pkg.package[1].brand_analysis
    /\ pkg.package[1].brand_analysis # <<>>

(***************************************************************************)
(* main.generate_complete_package_stream: event_generator                  *)
(* One action runs the generator from one await to the next and emits the  *)
(* events it yields on the way.                                            *)
(***************************************************************************)
CategoryMessage(c) ==
    CASE c = "logos"        -> "Creating logo variations"
      [] c = "social"       -> "Generating social media templates"
      [] c = "presentation" -> "Designing presentation slides"
      [] c = "email"        -> "Crafting email templates"
      [] c = "marketing"    -> "Building marketing materials"

ProgressEvent(step, total, percentage, message) ==
    [type |-> "progress", step |-> step, total |-> total,
     percentage |-> percentage, message |-> message]

CompleteEvent(package) == [type |-> "complete", data |-> package]

ErrorEvent(message) == [type |-> "error", message |-> message]

\* mutant: the percentage counts the step that is about to start
PercentageOfNext(completed_steps, total_steps) ==
    ((completed_steps + 1) * 100) \div total_steps

\* `int((completed_steps / total_steps) * 100)`: the float quotient times 100,
\* truncated; for the totals 1..6 of a request this is the integer floor
Percentage(completed_steps, total_steps) ==
    (completed_steps * 100) \div total_steps

\* how a call of generate_category ended
Outcome(t) == [category |-> t.category, raised |-> t.pc = "raised"]

\* steps_done, done_at: how many steps (analysis, categories, scoring) were
\* completed, now and when each event was emitted; outcomes: how each call
\* of generate_category ended, in order
NewStream(brand, plan) ==
    [pc |-> "open", brand |-> brand, plan |-> plan,
     total_steps |-> Cardinality(DOMAIN plan) + 1, completed_steps |-> 0,
     idx |-> 0, brand_analysis |-> <<>>, analysis_calls |-> 0,
     all_assets |-> <<>>, generation_notes |-> <<>>, scored_assets |-> <<>>,
     score_log |-> <<>>, batch_score |-> None, task |-> None,
     events |-> <<>>, steps_done |-> 0, done_at |-> <<>>, outcomes |-> <<>>]

\* `yield f"data: {json.dumps(...)}"`
Emit(s, event) ==
    [s EXCEPT !.events = Append(@, event), !.done_at = Append(@, s.steps_done)]

\* the end of the flow: the finalizing event, the package, the complete event
Finalize(s, campaign) ==
    LET s1 == Emit(s, ProgressEvent(s.total_steps + 1, s.total_steps + 1, 100,
                                    "Finalizing assets"))
        final_package == AssetPackage(s.brand.brand_name, s.scored_assets,
                                      s.brand_analysis, s.generation_notes,
                                      s.batch_score, campaign)
    IN  [Emit(s1, CompleteEvent(final_package)) EXCEPT !.pc = "closed"]

\* after the scoring loop: the batch score, then the campaign context if asked
StreamAfterScoring(s) ==
    LET q == [s EXCEPT !.batch_score = Some(_compute_batch_score(s.scored_assets)),
                       !.steps_done = @ + 1]
    IN  IF CampaignRequested(q.brand)
        THEN [q EXCEPT !.pc = "campaign"]
        ELSE Finalize(q, None)

\* after the category loop: the scoring event, then the scoring loop
EnterScoring(s) ==
    LET s1 == Emit(s, ProgressEvent(s.total_steps, s.total_steps + 1, 90,
                                    "Scoring brand consistency"))
    IN  IF s1.all_assets = <<>>
        THEN StreamAfterScoring(s1)
        ELSE [s1 EXCEPT !.pc = "score"]

\* the top of the category loop: the progress event of category k, then
\* generate_category is called
EnterCategory(s, k) ==
    IF k > Len(EnabledOrder(s))
    THEN EnterScoring([s EXCEPT !.task = None])
    ELSE LET c == EnabledOrder(s)[k]
         IN  [Emit(s, ProgressEvent(k + 1, s.total_steps,
                                    Percentage(s.completed_steps, s.total_steps),
                                    CategoryMessage(c)))
                EXCEPT !.pc = "category", !.idx = k,
                       !.task = Some(NewTask(c, s.plan[c], TRUE))]

StreamErrorNote(c, text) ==
    [kind |-> "Error generating", category |-> c, count |-> 0, text |-> text]

\* mutant: an exception of generate_category is not caught in the loop
AfterCategoryUnguarded(s, t) ==
    IF t.pc = "done"
    THEN EnterCategory([s EXCEPT !.all_assets = @ \o t.package[1].assets,
                                 !.generation_notes = @ \o t.package[1].generation_notes,
                                 !.completed_steps = @ + 1, !.steps_done = @ + 1,
                                 !.outcomes = Append(@, Outcome(t))],
                       s.idx + 1)
    ELSE IF t.pc = "raised"
    THEN [Emit(s, ErrorEvent(t.error[1])) EXCEPT !.pc = "closed", !.task = Some(t),
                                                 !.outcomes = Append(@, Outcome(t))]
    ELSE [s EXCEPT !.task = Some(t)]

\* mutant: the assets of a category are put before those collected so far
AfterCategoryPrepends(s, t) ==
    IF t.pc = "done"
    THEN EnterCategory([s EXCEPT !.all_assets = t.package[1].assets \o @,
                                 !.generation_notes = @ \o t.package[1].generation_notes,
                                 !.completed_steps = @ + 1, !.steps_done = @ + 1,
                                 !.outcomes = Append(@, Outcome(t))],
                       s.idx + 1)
    ELSE IF t.pc = "raised"
    THEN EnterCategory([s EXCEPT !.generation_notes =
                                     Append(@, StreamErrorNote(t.category, t.error[1])),
                                 !.completed_steps = @ + 1, !.steps_done = @ + 1,
                                 !.outcomes = Append(@, Outcome(t))],
                       s.idx + 1)
    ELSE [s EXCEPT !.task = Some(t)]

\* mutant: the category loop ends at the first category that raises
AfterCategoryStopsLoop(s, t) ==
    IF t.pc = "done"
    THEN EnterCategory([s EXCEPT !.all_assets = @ \o t.package[1].assets,
                                 !.generation_notes = @ \o t.package[1].generation_notes,
                                 !.completed_steps = @ + 1, !.steps_done = @ + 1,
                                 !.outcomes = Append(@, Outcome(t))],
                       s.idx + 1)
    ELSE IF t.pc = "raised"
    THEN EnterCategory([s EXCEPT !.generation_notes =
                                     Append(@, StreamErrorNote(t.category, t.error[1])),
                                 !.completed_steps = @ + 1, !.steps_done = @ + 1,
                                 !.outcomes = Append(@, Outcome(t))],
                       Len(EnabledOrder(s)) + 1)
    ELSE [s EXCEPT !.task = Some(t)]

\* after a step of generate_category: when it has returned or raised, the
\* result is collected, the step is counted and the loop goes on
AfterCategory(s, t) ==
    IF t.pc = "done"
    THEN EnterCategory([s EXCEPT !.all_assets = @ \o t.package[1].assets,
                                 !.generation_notes = @ \o t.package[1].generation_notes,
                                 !.completed_steps = @ + 1, !.steps_done = @ + 1,
                                 !.outcomes = Append(@, Outcome(t))],
                       s.idx + 1)
    ELSE IF t.pc = "raised"
    THEN EnterCategory([s EXCEPT !.generation_notes =
                                     Append(@, StreamErrorNote(t.category, t.error[1])),
                                 !.completed_steps = @ + 1, !.steps_done = @ + 1,
                                 !.outcomes = Append(@, Outcome(t))],
                       s.idx + 1)
    ELSE [s EXCEPT !.task = Some(t)]

\* A stream request may follow a recorded generate_complete_package request
\* for the same profile and categories; the gateway then answers each call
\* of the stream as it answered the corresponding call of that request.
Replaying == pkg.pc # "idle"

SameAnswers(trace, recorded) ==
    /\ Len(trace) <= Len(recorded)
    /\ \A i \in 1..Len(trace) :
         trace[i].kind = recorded[i].kind /\ trace[i].resp = recorded[i].resp

TaskReplays(t) == Replaying => SameAnswers(t.trace, tasks[t.category].trace)

ScoreReplays(i, score) ==
    Replaying => pkg.scored_assets[i].consistency_score = Some(score)

ThemeReplays(context) == Replaying => pkg.package[1].campaign = Some(context)

StreamOpen ==
    /\ stream.pc = "open"
    /\ stream' = [Emit(stream, ProgressEvent(1, stream.total_steps, 0,
                                             "Analyzing brand identity"))
                    EXCEPT !.pc = "analysis"]
    /\ UNCHANGED <<call, eng, pkg, tasks, cache>>

\* `brand_analysis = await generator._get_brand_analysis(brand_guidelines)`:
\* its exception reaches the outer except, which yields the error event
StreamAnalysis ==
    /\ stream.pc = "analysis"
    /\ LET k == stream.brand.brand_name
       IN  IF CacheMiss(cache, k)
           THEN \E resp \in AnalysisResponses :
                  LET r == analyze_brand(resp)
                      s == [stream EXCEPT !.analysis_calls = @ + 1]
                  IN  /\ Replaying => r.raised
                      /\ IF r.raised
                         THEN /\ stream' = [Emit(s, ErrorEvent("analysis failed"))
                                              EXCEPT !.pc = "closed"]
                              /\ UNCHANGED cache
                         ELSE /\ cache' = (k :> r.text) @@ cache
                              /\ stream' = EnterCategory(
                                     [s EXCEPT !.brand_analysis = cache'[k],
                                               !.completed_steps = 1,
                                               !.steps_done = 1], 1)
           ELSE /\ stream' = EnterCategory(
                       [stream EXCEPT !.brand_analysis = cache[k],
                                      !.completed_steps = 1, !.steps_done = 1], 1)
                /\ UNCHANGED cache
    /\ UNCHANGED <<call, eng, pkg, tasks>>

\* generate_category: the category generator's own _get_brand_analysis, then
\* its variant loop
StreamTaskStart ==
    /\ stream.pc = "category"
    /\ stream.task[1].pc = "start"
    /\ LET k == stream.brand.brand_name
           t == stream.task[1]
       IN  IF CacheMiss(cache, k)
           THEN \E resp \in AnalysisResponses, promptOk \in BOOLEAN :
                  LET r == analyze_brand(resp)
                      s == [stream EXCEPT !.analysis_calls = @ + 1]
                  IN  IF r.raised
                      THEN /\ stream' = AfterCategory(s,
                                  [t EXCEPT !.pc = "raised",
                                            !.error = Some("analysis failed")])
                           /\ UNCHANGED cache
                      ELSE /\ cache' = (k :> r.text) @@ cache
                           /\ LET new == BeginVariant(
                                            [t EXCEPT !.brand_analysis = cache'[k]],
                                            s.brand, 1, promptOk)
                              IN  TaskReplays(new) /\ stream' = AfterCategory(s, new)
           ELSE /\ \E promptOk \in BOOLEAN :
                     LET new == BeginVariant([t EXCEPT !.brand_analysis = cache[k]],
                                             stream.brand, 1, promptOk)
                     IN  TaskReplays(new) /\ stream' = AfterCategory(stream, new)
                /\ UNCHANGED cache
    /\ UNCHANGED <<call, eng, pkg, tasks>>

StreamTaskGenerateOk ==
    /\ stream.pc = "category"
    /\ stream.task[1].pc = "engine"
    /\ stream.task[1].eng.pc = "generate"
    /\ \E r \in PkgGenResults, promptOk \in BOOLEAN :
         LET t   == stream.task[1]
             new == AfterEngine(Traced(t, "generated", r), stream.brand,
                                GenerateImageOk(t.eng, r[1], r[2]), promptOk)
         IN  TaskReplays(new) /\ stream' = AfterCategory(stream, new)
    /\ UNCHANGED <<call, eng, pkg, tasks, cache>>

StreamTaskGenerateFail ==
    /\ stream.pc = "category"
    /\ stream.task[1].pc = "engine"
    /\ stream.task[1].eng.pc = "generate"
    /\ \E err \in GenErrors, promptOk \in BOOLEAN :
         LET t   == stream.task[1]
             new == AfterEngine(Traced(t, "not generated", err), stream.brand,
                                GenerateImageFail(t.eng, err), promptOk)
         IN  TaskReplays(new) /\ stream' = AfterCategory(stream, new)
    /\ UNCHANGED <<call, eng, pkg, tasks, cache>>

StreamTaskValidate ==
    /\ stream.pc = "category"
    /\ stream.task[1].pc = "engine"
    /\ stream.task[1].eng.pc = "validate"
    /\ \E resp \in PkgValResponses, promptOk \in BOOLEAN :
         LET t   == stream.task[1]
             new == AfterEngine(Traced(t, "validated", resp), stream.brand,
                                ValidateStep(t.eng, resp), promptOk)
         IN  TaskReplays(new) /\ stream' = AfterCategory(stream, new)
    /\ UNCHANGED <<call, eng, pkg, tasks, cache>>

\* one turn of the stream's scoring loop; an exception of _score_asset would
\* reach the outer except
StreamScoreNext ==
    /\ stream.pc = "score"
    /\ \E resp \in ScoreResponses :
         LET i     == Len(stream.scored_assets) + 1
             asset == stream.all_assets[i]
             r     == ScoreAsset(resp)
             s     == [stream EXCEPT !.score_log =
                           Append(@, [asset_name |-> asset.asset_name, resp |-> resp])]
             q     == [s EXCEPT !.scored_assets = Append(@, ScoredCopy(asset, r.score))]
         IN  /\ ScoreReplays(i, r.score)
             /\ stream' = IF r.raised
                          THEN [Emit(s, ErrorEvent("scoring failed")) EXCEPT !.pc = "closed"]
                          ELSE IF Len(q.scored_assets) = Len(q.all_assets)
                          THEN StreamAfterScoring(q)
                          ELSE q
    /\ UNCHANGED <<call, eng, pkg, tasks, cache>>

StreamCampaignTheme ==
    /\ stream.pc = "campaign"
    /\ \E resp \in ThemeResponses :
         LET context == _build_campaign_context(resp, stream.scored_assets)
         IN  /\ ThemeReplays(context)
             /\ stream' = Finalize(stream, Some(context))
    /\ UNCHANGED <<call, eng, pkg, tasks, cache>>

NextStream ==
    \/ StreamOpen
    \/ StreamAnalysis
    \/ StreamTaskStart
    \/ StreamTaskGenerateOk
    \/ StreamTaskGenerateFail
    \/ StreamTaskValidate
    \/ StreamScoreNext
    \/ StreamCampaignTheme

InitStream ==
    /\ eng = IdleEngine
    /\ pkg = IdlePkg
    /\ tasks = <<>>
    /\ cache = EmptyCache
    /\ call = IdleCall
    /\ \E brand \in Brands, plan \in Plans : stream = NewStream(brand, plan)

SpecStream == InitStream /\ [][NextStream]_vars

\* the same server answers a complete-package request, which is recorded,
\* and then a stream request with the same profile and categories
\* the requests that are made in both modes: two of the five categories
ReplayedPlans == {plan \in Plans : DOMAIN plan \subseteq {"logos", "email"}}

InitBoth ==
    /\ eng = IdleEngine
    /\ stream = IdleStream
    /\ call = IdleCall
    /\ cache = EmptyCache
    /\ tasks = <<>>
    /\ \E brand \in Brands, plan \in ReplayedPlans :
         pkg = [NewPackage(brand, plan) EXCEPT !.record = TRUE]

StreamRequest ==
    /\ pkg.pc \in {"returned", "raised"}
    /\ stream.pc = "idle"
    /\ stream' = NewStream(pkg.brand, pkg.plan)
    /\ UNCHANGED <<call, eng, pkg, tasks, cache>>

NextBoth == NextPackage \/ StreamRequest \/ NextStream

SpecBoth == InitBoth /\ [][NextBoth]_vars

(***************************************************************************)
(* The stream: properties of one generate_complete_package_stream request  *)
(***************************************************************************)
Events == stream.events

IsTerminal(event) == event.type \in {"complete", "error"}

Label(event) == IF event.type = "progress" THEN event.message ELSE event.type

Labels(events) == [i \in 1..Len(events) |-> Label(events[i])]

IsPrefix(s, t) == Len(s) <= Len(t) /\ \A i \in 1..Len(s) : s[i] = t[i]

\* the enabled categories in the order logos, social, presentation, email,
\* marketing, and the labels of the events of a stream that completes
FixedOrder == <<"logos", "social", "presentation", "email", "marketing">>

EnabledInFixedOrder == SelectSeq(FixedOrder, LAMBDA c : c \in DOMAIN stream.plan)

ExpectedLabels ==
    <<"Analyzing brand identity">>
      \o [k \in 1..Len(EnabledInFixedOrder) |-> CategoryMessage(EnabledInFixedOrder[k])]
      \o <<"Scoring brand consistency", "Finalizing assets", "complete">>

CategoryCount == Cardinality(DOMAIN stream.plan)

StreamAnalysisFailed ==
    /\ stream.pc = "closed"
    /\ CacheMiss(cache, stream.brand.brand_name)

\* C15: the events of a stream come in the order analysis, one event per
\* enabled category in the fixed order, scoring, finalizing, complete; the
\* analysis event precedes the analysis call, the event of a category is
\* the last event while that category is generated and is emitted when all
\* earlier categories have finished, the scoring event precedes the first
\* scoring call and the finalizing event follows the last one.
C15_EventOrder ==
    stream.pc # "idle" =>
      /\ \/ IsPrefix(Labels(Events), ExpectedLabels)
         \/ Labels(Events) = <<"Analyzing brand identity", "error">>
      /\ stream.analysis_calls > 0 => Len(Events) >= 1
      /\ stream.pc = "category" =>
           /\ Len(Events) = stream.idx + 1
           /\ Label(Events[Len(Events)]) = CategoryMessage(stream.task[1].category)
           /\ stream.task[1].category = EnabledInFixedOrder[stream.idx]
           /\ stream.completed_steps = stream.idx
           /\ stream.score_log = <<>>
      /\ stream.score_log # <<>> =>
           /\ Len(Events) >= CategoryCount + 2
           /\ stream.completed_steps = CategoryCount + 1
      /\ stream.pc = "score" => Len(Events) = CategoryCount + 2
      /\ Len(Events) >= CategoryCount + 3 =>
           /\ Len(stream.score_log) = Len(stream.all_assets)
           /\ Len(stream.scored_assets) = Len(stream.all_assets)

C15_Witness ==
    /\ stream.pc = "closed"
    /\ Labels(Events) = ExpectedLabels
    /\ CategoryCount = 2
    /\ Len(stream.score_log) = 2

TerminalEvents == {i \in 1..Len(Events) : IsTerminal(Events[i])}

\* C16: a stream that has ended has exactly one terminal event, complete or
\* error, as its last event; a stream that has not ended has none and is
\* at an await whose answer lets it go on; the
\* terminal event is error exactly when the brand analysis failed (a failed
\* category is a note, not an error), and complete carries the package that
\* was assembled.
C16_OneTerminalEvent ==
    stream.pc # "idle" =>
      /\ Cardinality(TerminalEvents) <= 1
      /\ \A i \in TerminalEvents : i = Len(Events)
      /\ (stream.pc = "closed") <=> (TerminalEvents # {})
      /\ stream.pc \in {"open", "analysis", "category", "score", "campaign", "closed"}
      /\ stream.pc = "category" =>
           \/ stream.task[1].pc = "start"
           \/ /\ stream.task[1].pc = "engine"
              /\ stream.task[1].eng.pc \in {"generate", "validate"}
      /\ stream.pc = "score" => Len(stream.scored_assets) < Len(stream.all_assets)
      /\ stream.pc = "closed" =>
           LET last == Events[Len(Events)]
           IN  /\ (last.type = "error") <=> StreamAnalysisFailed
               /\ last.type = "complete" =>
                    /\ last.data.assets = stream.scored_assets
                    /\ last.data.brand_analysis = stream.brand_analysis
                    /\ last.data.generation_notes = stream.generation_notes
                    /\ last.data.batch_score = stream.batch_score

\* a stream with a failed category that ends with complete
C16_Witness ==
    /\ stream.pc = "closed"
    /\ Events[Len(Events)].type = "complete"
    /\ \E i \in 1..Len(stream.generation_notes) :
         stream.generation_notes[i].kind = "Error generating"
    /\ Events[Len(Events)].data.assets # <<>>

ProgressEvents == {i \in 1..Len(Events) : Events[i].type = "progress"}

\* C17 (as claimed): every progress event reports the percentage
\* floor(completed steps / total announced in the event * 100), the completed
\* steps being those completed when the event is emitted.
C17_PercentageIsFloor ==
    stream.pc # "idle" =>
      \A i \in ProgressEvents :
         Events[i].percentage = (stream.done_at[i] * 100) \div Events[i].total

(***************************************************************************)
(* The two modes on the same request and the same gateway answers          *)
(***************************************************************************)
StreamPackage == Events[Len(Events)].data

BothReturned ==
    /\ pkg.pc = "returned"
    /\ stream.pc = "closed"

\* C18: when a stream request gets, for the same profile and categories, the
\* answers a generate_complete_package request got, the package of its
\* complete event has the same assets (names, order, payloads, scores) and
\* the same batch score as the package that request returned; and the stream
\* ends with the error event exactly when that request raised.
C18_SameWorkInBothModes ==
    stream.pc = "closed" =>
      /\ (pkg.pc = "returned") <=> (Events[Len(Events)].type = "complete")
      /\ (pkg.pc = "raised") <=> (Events[Len(Events)].type = "error")
      /\ pkg.pc = "returned" =>
           /\ Names(StreamPackage.assets) = Names(pkg.package[1].assets)
           /\ StreamPackage.assets = pkg.package[1].assets
           /\ StreamPackage.batch_score = pkg.package[1].batch_score

\* both modes returned two categories' assets, one of them after a retried
\* generation, with a variant skipped and a fallback score
C18_Witness ==
    /\ BothReturned
    /\ Len(StreamPackage.assets) >= 2
    /\ StreamPackage.assets[1].asset_type # StreamPackage.assets[2].asset_type
    /\ StreamPackage.assets[1].consistency_score
          # StreamPackage.assets[2].consistency_score
    /\ \E c \in DoneTasks : Len(tasks[c].package[1].assets) = tasks[c].n
    /\ \E c \in DOMAIN tasks : Len(tasks[c].trace) >= 4
    /\ StreamPackage.batch_score = pkg.package[1].batch_score

(***************************************************************************)
(* Scoring                                                                 *)
(***************************************************************************)
\* C19: in the package generate_complete_package returns every asset has a
\* consistency score and the batch score is present; the scoring calls were
\* made for the merged assets, one each and in order, and the batch score
\* averages exactly the assets of the returned list.
C19_EveryAssetScored ==
    pkg.pc = "returned" =>
      LET assets == pkg.package[1].assets
          batch  == pkg.package[1].batch_score
      IN  /\ \A i \in 1..Len(assets) : assets[i].consistency_score # None
          /\ batch # None
          /\ Len(assets) = Len(pkg.all_assets)
          /\ pkg.score_calls = Names(pkg.all_assets)
          /\ Names(assets) = Names(pkg.all_assets)
          /\ batch[1].summary.n = Len(assets)
          /\ \A f \in 1..Len(ScoreFields) :
               batch[1][ScoreFields[f]] =
                  IF assets = <<>> THEN 0
                  ELSE SumOf(assets, ScoreFields[f]) \div Len(assets)

C19_Witness ==
    /\ pkg.pc = "returned"
    /\ Len(pkg.package[1].assets) = 2
    /\ pkg.package[1].assets[1].consistency_score
          # pkg.package[1].assets[2].consistency_score
    /\ pkg.package[1].batch_score[1].overall_score = (88 + 75) \div 2

ValidScoreResponse(resp) ==
    /\ resp.kind # "raise"
    /\ \A i \in 1..6 : resp.json.nums[i] \in 0..100

ScoreOf(i) == stream.scored_assets[i].consistency_score

\* C20: _score_asset never raises; when the scoring call failed or answered
\* a sub-score outside 0..100 it returned the fallback whose overall score
\* and five sub-scores are all 75, and the stream went on; a valid answer is
\* returned as the score.
C20_ScoreFallback ==
    stream.pc # "idle" =>
      /\ Len(stream.scored_assets) = Len(stream.score_log)
      /\ \A i \in 1..Len(stream.score_log) :
           LET resp == stream.score_log[i].resp
           IN  /\ ScoreOf(i) # None
               /\ ~ValidScoreResponse(resp) =>
                    \A f \in 1..Len(ScoreFields) : ScoreOf(i)[1][ScoreFields[f]] = 75
               /\ ValidScoreResponse(resp) =>
                    \A f \in 1..Len(ScoreFields) :
                       ScoreOf(i)[1][ScoreFields[f]] = resp.json.nums[f]
      /\ stream.score_log # <<>> =>
           \A i \in 1..Len(Events) : Events[i].type # "error"

\* a stream that completed after one scoring call raised and another
\* answered an out-of-range score
C20_Witness ==
    /\ stream.pc = "closed"
    /\ Events[Len(Events)].type = "complete"
    /\ Len(stream.score_log) = 2
    /\ stream.score_log[1].resp.kind = "raise"
    /\ stream.score_log[2].resp.kind = "json"
    /\ stream.score_log[2].resp.json.nums[1] > 100
    /\ ScoreOf(1) = ScoreOf(2)

(***************************************************************************)
(* Calls of the two helpers that compute without the gateway:              *)
(* _compute_batch_score on a list of assets, _get_slide_sequence on a      *)
(* slide count                                                             *)
(***************************************************************************)
\* longest asset list _compute_batch_score is called with
MaxBatch == 4

\* PresentationRequest.slide_count: Field(ge=1, le=20)
SlideCounts == 1..20

\* the six numbers of an asset's consistency score, overall_score first
BatchScorePool ==
    {<<90, 100, 0, 55, 71, 88>>, <<80, 33, 100, 64, 70, 12>>,
     <<70, 70, 70, 70, 70, 70>>, <<85, 1, 99, 50, 84, 85>>,
     <<69, 0, 100, 100, 69, 43>>}

\* Optional[ConsistencyScore] of an asset
ScoreOptions ==
    {None} \cup {Some(ConsistencyScore(nums, "scored")) : nums \in BatchScorePool}

\* a GeneratedAsset: the i-th slide of a deck, with or without a score
GeneratedAsset(i, score) ==
    LET args == VariantArgs("presentation", i)
    IN  [asset_type |-> args.asset_type, asset_name |-> args.asset_name,
         image_data |-> b64encode(<<137, 80>>), mime_type |-> "image/png",
         width |-> args.width, height |-> args.height,
         description |-> Some(args.description), consistency_score |-> score,
         iteration_count |-> 1, iteration_history |-> <<>>, self_corrected |-> FALSE]

\* the list of n assets whose scores are given by scores
BatchInput(n, scores) == [i \in 1..n |-> GeneratedAsset(i, scores[i])]

NewCall(fn, args) == [pc |-> "called", fn |-> fn, args |-> args, result |-> None]

InitCalls ==
    /\ eng = IdleEngine
    /\ pkg = IdlePkg
    /\ tasks = <<>>
    /\ cache = EmptyCache
    /\ stream = IdleStream
    /\ \/ \E n \in 0..MaxBatch : \E scores \in [1..n -> ScoreOptions] :
              call = NewCall("_compute_batch_score", [assets |-> BatchInput(n, scores)])
       \/ \E count \in SlideCounts :
              call = NewCall("_get_slide_sequence", [count |-> count])

ComputeBatchScore ==
    /\ call.pc = "called"
    /\ call.fn = "_compute_batch_score"
    /\ call' = [call EXCEPT !.pc = "returned",
                            !.result = Some(_compute_batch_score(call.args.assets))]
    /\ UNCHANGED <<eng, pkg, tasks, cache, stream>>

GetSlideSequence ==
    /\ call.pc = "called"
    /\ call.fn = "_get_slide_sequence"
    /\ call' = [call EXCEPT !.pc = "returned",
                            !.result = Some(_get_slide_sequence(call.args.count))]
    /\ UNCHANGED <<eng, pkg, tasks, cache, stream>>

NextCalls == ComputeBatchScore \/ GetSlideSequence

SpecCalls == InitCalls /\ [][NextCalls]_vars

\* the call of _compute_batch_score has returned
BatchReturned == call.pc = "returned" /\ call.fn = "_compute_batch_score"

ScoredInputs == SelectSeq(call.args.assets, IsScored)

OverallScores(seq) == [i \in 1..Len(seq) |-> seq[i].consistency_score[1].overall_score]

\* C21: for a non-empty list with at least one scored asset, each of the six
\* fields of the batch score is the integer floor of the mean of that field
\* over the scored assets only, and so lies in 0..100
C21_BatchIsFloorOfMean ==
    (BatchReturned /\ ScoredInputs # <<>>) =>
        LET n == Len(ScoredInputs)
            b == call.result[1]
        IN  \A i \in 1..Len(ScoreFields) :
              LET field == ScoreFields[i]
                  total == SumOf(ScoredInputs, field)
              IN  /\ b[field] * n <= total
                  /\ total < (b[field] + 1) * n
                  /\ b[field] \in 0..100

\* overall scores 90, 80, 70 next to an asset without a score give 80, and
\* color adherences 100, 33, 70 give 67
C21_Witness ==
    /\ BatchReturned
    /\ Len(call.args.assets) = 4
    /\ OverallScores(ScoredInputs) = <<90, 80, 70>>
    /\ call.result[1].overall_score = 80
    /\ call.result[1].color_adherence = 67

\* the names of the scored inputs whose overall score satisfies P, in input order
NamesWhere(P(_)) ==
    Names(SelectSeq(call.args.assets,
                    LAMBDA a : IsScored(a) /\ P(a.consistency_score[1].overall_score)))

AtLeast85(score) == score >= 85

Below70(score) == score < 70

\* C22: top_performers (overall score >= 85) and needs_attention (overall
\* score < 70) hold at most 3 names each, the first ones in input order, and
\* no asset is in both lists
C22_ListsCutAndDisjoint ==
    BatchReturned =>
        LET top == call.result[1].top_performers
            low == call.result[1].needs_attention
        IN  /\ Len(top) <= 3 /\ Len(low) <= 3
            /\ IsPrefix(top, NamesWhere(AtLeast85))
            /\ IsPrefix(low, NamesWhere(Below70))
            /\ Len(NamesWhere(AtLeast85)) >= 3 => Len(top) = 3
            /\ Len(NamesWhere(Below70)) >= 3 => Len(low) = 3
            /\ Len(NamesWhere(AtLeast85)) < 3 => top = NamesWhere(AtLeast85)
            /\ Len(NamesWhere(Below70)) < 3 => low = NamesWhere(Below70)
            /\ Elems(top) \cap Elems(low) = {}

\* four inputs score 85 or more: the fourth is left out of top_performers
C22_Witness ==
    /\ BatchReturned
    /\ Len(NamesWhere(AtLeast85)) = 4
    /\ call.result[1].top_performers = SubSeq(Names(call.args.assets), 1, 3)
    /\ call.result[1].needs_attention = <<>>

\* C23: _compute_batch_score on the empty list returns six zeros, the summary
\* 'No assets generated.' and two empty lists of names
C23_EmptyListAllZero ==
    (BatchReturned /\ call.args.assets = <<>>) =>
        LET b == call.result[1]
        IN  /\ \A i \in 1..Len(ScoreFields) : b[ScoreFields[i]] = 0
            /\ b.summary.text = "No assets generated."
            /\ b.top_performers = <<>>
            /\ b.needs_attention = <<>>

C23_Witness ==
    /\ call.pc = "returned"
    /\ call.fn = "_compute_batch_score"
    /\ Len(call.args.assets) = 0
    /\ call.result # None

\* the call of _get_slide_sequence has returned
SlidesReturned == call.pc = "returned" /\ call.fn = "_get_slide_sequence"

\* C24: for a count in 1..20 the sequence has exactly count slide types and
\* begins with title; up to 3 it is the prefix of title, content, closing;
\* from 4 on it ends with closing and has only content, two_column,
\* image_focus and section in between
C24_SlideSequenceShape ==
    SlidesReturned =>
        LET count  == call.args.count
            slides == call.result[1]
        IN  /\ Len(slides) = count
            /\ slides[1] = "title"
            /\ count <= 3 => \A i \in 1..count :
                                slides[i] = <<"title", "content", "closing">>[i]
            /\ count >= 4 =>
                 /\ slides[count] = "closing"
                 /\ \A i \in 2..(count - 1) :
                       slides[i] \in {"content", "two_column", "image_focus", "section"}

\* the sequences of 6 slides and of 20 slides have been computed in some call
C24_Witness ==
    /\ SlidesReturned
    /\ call.args.count \in {6, 20}
    /\ Len(call.result[1]) = call.args.count
    /\ call.result[1][1] = "title"
    /\ call.result[1][call.args.count] = "closing"

(***************************************************************************)
(* The correction engine: what one iteration hands to the next             *)
(***************************************************************************)
Last(seq) == seq[Len(seq)]

\* a step in which the generate_image call of the current iteration raises
GenerationRaises ==
    /\ eng.pc = "generate"
    /\ Len(eng'.gen_calls) = Len(eng.gen_calls) + 1
    /\ ~Last(eng'.gen_calls).ok

\* every validation call belongs to an iteration whose generation returned
ValidatedOnlyIfGenerated ==
    \A i \in 1..Len(eng.val_calls) :
        /\ eng.val_calls[i].iteration <= Len(eng.gen_calls)
        /\ eng.gen_calls[eng.val_calls[i].iteration].ok

\* C25: when generate_image raises at iteration k, a record with number k,
\* status failed, no image data and the synthetic verdict (not passed, score
\* 0, one issue with the error message) is appended, no validation call is
\* made for iteration k, and the loop goes on with iteration k+1 if k < 3
C25_FailedGenerationRecorded ==
    /\ [](eng.pc \in {"generate", "validate", "returned", "raised"}
            => ValidatedOnlyIfGenerated)
    /\ [][GenerationRaises =>
            LET k   == eng.iteration_num
                rec == Last(eng'.iteration_history)
            IN  /\ Len(eng'.iteration_history) = Len(eng.iteration_history) + 1
                /\ SubSeq(eng'.iteration_history, 1, Len(eng.iteration_history))
                      = eng.iteration_history
                /\ rec.iteration_number = k
                /\ rec.status = "failed"
                /\ rec.image_data = <<>>
                /\ rec.validation.passed = FALSE
                /\ rec.validation.score = 0
                /\ Len(rec.validation.issues) = 1
                /\ rec.validation.issues[1].kind = "Generation failed"
                /\ rec.validation.issues[1].text \in GenErrors
                /\ eng'.val_calls = eng.val_calls
                /\ k < MAX_ITERATIONS =>
                      eng'.pc = "generate" /\ eng'.iteration_num = k + 1
                /\ k = MAX_ITERATIONS => eng'.pc = "returned"]_vars

\* the generation of iteration 1 raised and iteration 2 has been attempted
C25_Witness ==
    /\ eng.pc \in {"generate", "validate", "returned", "raised"}
    /\ Len(eng.gen_calls) >= 2
    /\ ~eng.gen_calls[1].ok
    /\ eng.iteration_history[1].status = "failed"
    /\ eng.iteration_history[1].iteration_number = 1
    /\ \A i \in 1..Len(eng.val_calls) : eng.val_calls[i].iteration # 1

\* iteration k was validated and its verdict did not pass
ValidatedNotPassed(k) ==
    /\ k <= Len(eng.gen_calls) /\ eng.gen_calls[k].ok
    /\ k <= Len(eng.iteration_history)
    /\ ~eng.iteration_history[k].validation.passed

\* the issues of the verdict of iteration k, then its guidance as one issue
IssuesAfter(k) ==
    LET v == eng.iteration_history[k].validation
    IN  IF v.regeneration_guidance # None
        THEN Append(v.issues, [kind |-> "Guidance", text |-> v.regeneration_guidance[1]])
        ELSE v.issues

\* the validation calls made in iteration k
ValCallsOf(k) == {i \in 1..Len(eng.val_calls) : eng.val_calls[i].iteration = k}

ValidatedBefore(k) ==
    {j \in 1..(k - 1) : eng.gen_calls[j].ok /\ j <= Len(eng.iteration_history)}

\* the issue list the engine holds after the iterations before k
OutstandingBefore(k) ==
    IF ValidatedBefore(k) = {} THEN <<>> ELSE IssuesAfter(MaxOf(ValidatedBefore(k)))

IsGenerationFailure(issue) == issue.kind = "Generation failed"

\* C27: a failed generation at iteration k changes neither the outstanding
\* issue list nor the last obtained image and MIME type; iteration k+1 is
\* generated with the issues of the most recent validated iteration (none if
\* there is none), and the 'Generation failed' issue is never carried on
C27_FailedGenerationKeepsState ==
    /\ [](eng.pc \in {"generate", "validate", "returned", "raised"} =>
            /\ \A i \in 1..Len(eng.previous_issues) :
                  ~IsGenerationFailure(eng.previous_issues[i])
            /\ \A c \in 1..Len(eng.gen_calls) : \A i \in 1..Len(eng.gen_calls[c].style) :
                  ~IsGenerationFailure(eng.gen_calls[c].style[i])
            /\ \A c \in 1..Len(eng.val_calls) : \A i \in 1..Len(eng.val_calls[c].issues) :
                  ~IsGenerationFailure(eng.val_calls[c].issues[i])
            /\ \A k \in 1..(MAX_ITERATIONS - 1) :
                  (Len(eng.gen_calls) >= k + 1 /\ ~eng.gen_calls[k].ok) =>
                      eng.gen_calls[k + 1].style = OutstandingBefore(k))
    /\ [][GenerationRaises =>
            /\ eng'.previous_issues = eng.previous_issues
            /\ eng'.final_image_data = eng.final_image_data
            /\ eng'.final_mime_type = eng.final_mime_type]_vars

\* iteration 1 left issues, the generation of iteration 2 failed, and
\* iteration 3 is generated with the issues of iteration 1 while the engine
\* still holds the image of iteration 1
C27_Witness ==
    /\ eng.pc \in {"generate", "validate", "returned", "raised"}
    /\ Len(eng.gen_calls) = 3
    /\ eng.gen_calls[1].ok /\ ~eng.gen_calls[2].ok
    /\ eng.previous_issues # <<>>
    /\ eng.gen_calls[3].style = IssuesAfter(1)
    /\ ~eng.gen_calls[3].ok
    /\ eng.final_image_data = eng.gen_calls[1].image

\* the validation calls whose response text was no JSON
UnparseableCalls ==
    {i \in 1..Len(eng.val_calls) : eng.val_calls[i].answer = "unparseable"}

\* C28: when the validation response of iteration k is no JSON, the verdict
\* is passed with score 75 and no issues, the loop stops at iteration k, the
\* record of iteration k is the last one and the returned asset carries the
\* image of iteration k
C28_UnparseableVerdictPasses ==
    \A i \in UnparseableCalls :
        LET k == eng.val_calls[i].iteration
        IN  /\ i = Len(eng.val_calls)
            /\ eng.pc = "returned"
            /\ Len(eng.gen_calls) = k
            /\ Len(eng.iteration_history) = k
            /\ eng.iteration_history[k].iteration_number = k
            /\ eng.iteration_history[k].validation.passed
            /\ eng.iteration_history[k].validation.score = 75
            /\ eng.iteration_history[k].validation.issues = <<>>
            /\ eng.asset[1].image_data = b64encode(eng.gen_calls[k].image)
            /\ eng.asset[1].image_data = eng.iteration_history[k].image_data
            /\ eng.asset[1].iteration_count = k

\* iteration 1 did not pass and the validation response of iteration 2 was
\* no JSON
C28_Witness ==
    /\ eng.pc = "returned"
    /\ Len(eng.val_calls) = 2
    /\ eng.val_calls[2].answer = "unparseable"
    /\ eng.val_calls[2].iteration = 2
    /\ Len(eng.iteration_history) = 2
    /\ eng.gen_calls[1].image # eng.gen_calls[2].image

\* the records of the iterations whose image was validated
ValidatedIterations ==
    {k \in 1..Len(eng.iteration_history) : eng.gen_calls[k].ok}

CategoryCall(brand, c) ==
    [Launched(NewPackage(brand, c :> Len(CategoryVariants(c))), <<>>)
        EXCEPT !.record = TRUE]

InitCategory ==
    /\ eng = IdleEngine
    /\ stream = IdleStream
    /\ call = IdleCall
    /\ cache = EmptyCache
    /\ \E brand \in Brands, c \in Categories :
          /\ pkg = CategoryCall(brand, c)
          /\ tasks = Launch(pkg)

NextCategory == \E c \in DOMAIN tasks : TaskStep(c)

SpecCategory == InitCategory /\ [][NextCategory]_vars

\* where the recorded answers of task t begin a variant: the k-th entry of
\* kind prompt belongs to variant k
PromptEntries(t) ==
    SelectSeq([i \in 1..Len(t.trace) |-> i], LAMBDA i : t.trace[i].kind = "prompt")

\* the variants of task t whose engine call has ended
EndedVariants(t) ==
    IF t.pc \in {"done", "raised"}
    THEN {j \in 1..Len(PromptEntries(t)) : t.trace[PromptEntries(t)[j]].resp}
    ELSE 1..(Len(PromptEntries(t)) - 1)

\* the last answer recorded for variant j
LastAnswer(t, j) ==
    IF j < Len(PromptEntries(t))
    THEN t.trace[PromptEntries(t)[j + 1] - 1]
    ELSE Last(t.trace)

\* the engine call of variant j raised: its validation call raised
EngineRaised(t, j) ==
    /\ LastAnswer(t, j).kind = "validated"
    /\ LastAnswer(t, j).resp.kind = "raise"

\* the names of the ended variants whose engine call returned, in request order
ReturnedVariantNames(t) ==
    LET returned == SelectSeq([j \in 1..t.n |-> j],
                        LAMBDA j : j \in EndedVariants(t) /\ ~EngineRaised(t, j))
    IN  [k \in 1..Len(returned) |-> AssetName(t.category, returned[k])]

\* C30: a variant whose engine call raises is skipped and the variants after
\* it are still generated: the category's assets are exactly those of the
\* variants whose engine call returned, in request order, and an exception
\* of the engine never leaves the category generator
C30_RaisingVariantSkipped ==
    \A c \in DOMAIN tasks :
        LET t == tasks[c]
        IN  t.pc # "start" =>
              /\ Names(t.assets) = ReturnedVariantNames(t)
              /\ t.pc = "done" =>
                    /\ t.package[1].assets = t.assets
                    /\ EndedVariants(t) = 1..t.n
              /\ t.pc = "raised" =>
                    \/ t.trace = <<>>
                    \/ Last(t.trace).kind = "prompt" /\ ~Last(t.trace).resp

\* the engine call of the second logo raised; the package holds the first
\* and the third logo
C30_Witness ==
    /\ "logos" \in DOMAIN tasks
    /\ tasks["logos"].pc = "done"
    /\ tasks["logos"].n = 3
    /\ EngineRaised(tasks["logos"], 2)
    /\ Names(tasks["logos"].package[1].assets)
          = <<AssetName("logos", 1), AssetName("logos", 3)>>

(***************************************************************************)
(* The stream: a category that raises                                      *)
(***************************************************************************)
\* the event that announces the k-th enabled category
Announced(k) ==
    /\ Len(Events) >= k + 1
    /\ Events[k + 1].type = "progress"
    /\ Events[k + 1].message = CategoryMessage(EnabledInFixedOrder[k])

\* generate_category has been called for the k-th enabled category
Generated(k) ==
    \/ Len(stream.outcomes) >= k
    \/ stream.pc = "category" /\ stream.idx = k

\* C31: when the generation of a category raises in the stream, a note with
\* the name of that category is added to generation_notes, no error event is
\* emitted for it (an error event comes only after the scoring event), and
\* every enabled category after it is still announced and generated
C31_StreamCategoryFailureIsolated ==
    stream.pc # "idle" =>
      /\ stream.pc = "category" => stream.idx = Len(stream.outcomes) + 1
      /\ \A k \in 1..Len(stream.outcomes) :
           stream.outcomes[k].raised =>
              /\ stream.outcomes[k].category = EnabledInFixedOrder[k]
              /\ Len(stream.generation_notes) >= k
              /\ stream.generation_notes[k].kind = "Error generating"
              /\ stream.generation_notes[k].category = EnabledInFixedOrder[k]
              /\ \A i \in 1..Len(Events) :
                    Events[i].type = "error" => i > CategoryCount + 2
              /\ \A j \in (k + 1)..CategoryCount :
                    (stream.pc = "category" => j <= stream.idx) =>
                       Announced(j) /\ Generated(j)
              /\ stream.pc # "category" => Len(stream.outcomes) = CategoryCount

C31_Witness ==
    /\ stream.pc = "closed"
    /\ CategoryCount = 2
    /\ Len(stream.outcomes) = 2
    /\ stream.outcomes[1].raised /\ ~stream.outcomes[2].raised
    /\ stream.generation_notes[1].kind = "Error generating"
    /\ Announced(2)
    /\ Events[Len(Events)].type = "complete"
    /\ Len(Events[Len(Events)].data.assets) = 1

(***************************************************************************)
(* generate_complete_package: the barrier between generation and scoring   *)
(***************************************************************************)
AllTasksFinished == \A c \in DOMAIN tasks : tasks[c].pc \in {"done", "raised"}

ScoringBegun == pkg.pc = "score" \/ pkg.score_calls # <<>>

\* C32: no scoring call is issued before every launched category task has
\* returned or raised; the scoring calls are then issued one at a time, each
\* after the previous one was answered, in the order of the merged asset list.
C32_ScoringAfterBarrierInOrder ==
    /\ [](pkg.pc # "idle" /\ ScoringBegun =>
            /\ pkg.launched
            /\ AllTasksFinished
            /\ IsPrefix(pkg.score_calls, Names(pkg.all_assets))
            /\ Len(pkg.scored_assets) <= Len(pkg.score_calls)
            /\ Len(pkg.score_calls) <= Len(pkg.scored_assets) + 1)
    /\ [][pkg.pc # "idle" /\ pkg'.pc # "idle" /\ pkg'.score_calls # pkg.score_calls =>
            /\ Len(pkg.scored_assets) = Len(pkg.score_calls)
            /\ pkg'.score_calls =
                 Append(pkg.score_calls,
                        pkg.all_assets[Len(pkg.score_calls) + 1].asset_name)
            /\ tasks' = tasks]_vars

C32_Witness ==
    /\ pkg.pc = "score"
    /\ Cardinality(DOMAIN tasks) = 2
    /\ AllTasksFinished
    /\ Len(pkg.all_assets) = 2
    /\ Len(pkg.score_calls) = 1
    /\ pkg.score_calls[1] = pkg.all_assets[1].asset_name

(***************************************************************************)
(* generate_complete_package: the order of the returned assets             *)
(***************************************************************************)
CategoryOfName(n) == CHOOSE c \in Categories : NamePrefix(c) = n.prefix

CategoryRank(c) == CHOOSE i \in 1..Len(FixedOrder) : FixedOrder[i] = c

VariantRank(n) ==
    LET c == CategoryOfName(n)
    IN  CHOOSE i \in 1..Len(CategoryVariants(c)) : AssetName(c, i) = n

ComesBefore(m, n) ==
    \/ CategoryRank(CategoryOfName(m)) < CategoryRank(CategoryOfName(n))
    \/ /\ CategoryOfName(m) = CategoryOfName(n)
       /\ VariantRank(m) < VariantRank(n)

InCategoryOrder(names) ==
    \A i, j \in 1..Len(names) : i < j => ComesBefore(names[i], names[j])

\* C33: whatever the order in which the category tasks finish, the assets of
\* the returned package are grouped by category in the order logos, social,
\* presentation, email, marketing, and within a category they are in variant
\* order; they are the assets the tasks that returned produced.
C33_AssetOrderFixed ==
    /\ (pkg.pc \in {"score", "campaign", "returned", "raised"} /\ pkg.launched) =>
          /\ InCategoryOrder(Names(pkg.all_assets))
          /\ Elems(pkg.all_assets) = CategoryAssets
    /\ pkg.pc = "returned" =>
          /\ InCategoryOrder(Names(pkg.package[1].assets))
          /\ Names(pkg.package[1].assets) = Names(pkg.all_assets)

C33_Witness ==
    /\ pkg.pc = "returned"
    /\ Len(pkg.finished) = 2
    /\ CategoryRank(pkg.finished[1]) > CategoryRank(pkg.finished[2])
    /\ Len(pkg.package[1].assets) = 2
    /\ CategoryOfName(pkg.package[1].assets[1].asset_name) = pkg.finished[2]
    /\ CategoryOfName(pkg.package[1].assets[2].asset_name) = pkg.finished[1]

(***************************************************************************)
(* generate_complete_package: what scoring changes of an asset             *)
(***************************************************************************)
UnscoredFields ==
    {"asset_type", "asset_name", "image_data", "mime_type", "width", "height",
     "description", "iteration_count", "iteration_history", "self_corrected"}

SameButScore(a, b) == \A f \in UnscoredFields : a[f] = b[f]

\* C34 (as claimed): the asset at each place of the returned package differs
\* from the asset the engine returned, which is at the same place of the
\* merged list, in its consistency_score only: type, name, payload, MIME
\* type, dimensions, description, iteration_count, iteration_history and
\* self_corrected are equal.
C34_ScoringChangesScoreOnly ==
    pkg.pc = "returned" =>
       /\ Len(pkg.package[1].assets) = Len(pkg.all_assets)
       /\ \A i \in 1..Len(pkg.all_assets) :
             SameButScore(pkg.package[1].assets[i], pkg.all_assets[i])

(***************************************************************************)
(* The brand-analysis cache: entries, keys and failures                    *)
(***************************************************************************)
\* C35: an entry of the cache is never removed and never replaced, whatever
\* the interleaving of the callers, so every caller that returned holds the
\* value the cache has for its brand name.
C35_CacheEntriesPermanent ==
    /\ [][\A k \in DOMAIN cache :
             k \in DOMAIN cache' /\ cache'[k] = cache[k]]_vars
    /\ [](\A a \in DOMAIN tasks :
             tasks[a].pc = "returned" =>
                /\ tasks[a].cache_key \in DOMAIN cache
                /\ tasks[a].result = Some(cache[tasks[a].cache_key]))

C35_Witness ==
    /\ DOMAIN cache = BrandNames
    /\ \A a \in DOMAIN tasks : tasks[a].pc = "returned"
    /\ \E a, b \in DOMAIN tasks :
         /\ a # b
         /\ tasks[a].guidelines.brand_name = tasks[b].guidelines.brand_name
         /\ tasks[a].called /\ ~tasks[b].called
         /\ tasks[a].result = tasks[b].result
    /\ \E a, c \in DOMAIN tasks :
         /\ tasks[a].guidelines.brand_name # tasks[c].guidelines.brand_name
         /\ tasks[a].result # tasks[c].result

\* the callers that returned an analysis for the brand name of caller a
ServedBefore(a) ==
    {b \in DOMAIN tasks :
        /\ b # a
        /\ tasks[b].guidelines.brand_name = tasks[a].guidelines.brand_name
        /\ tasks[b].pc = "returned"}

Enters(a) == tasks[a].pc = "start" /\ tasks'[a].pc # "start"

\* C36: the cache is keyed by the brand name alone: a call whose guidelines
\* have the brand name of an earlier, answered call returns that call's
\* analysis and invokes no gateway call, also when the rest of its
\* guidelines differs.
C36_KeyedByNameOnly ==
    [][\A a \in DOMAIN tasks :
          (Enters(a) /\ ServedBefore(a) # {}) =>
             /\ tasks'[a].pc = "returned"
             /\ ~tasks'[a].called
             /\ \A b \in ServedBefore(a) : tasks'[a].result = tasks[b].result]_vars

C36_Witness ==
    \E a, b \in DOMAIN tasks :
      /\ tasks[a].guidelines.brand_name = tasks[b].guidelines.brand_name
      /\ tasks[a].guidelines.content # tasks[b].guidelines.content
      /\ tasks[a].pc = "returned" /\ tasks[b].pc = "returned"
      /\ tasks[a].called /\ ~tasks[b].called
      /\ tasks[b].result = tasks[a].result

\* the callers of the brand name of caller a that got an analysis
Served(a) ==
    {b \in DOMAIN tasks :
        /\ tasks[b].guidelines.brand_name = tasks[a].guidelines.brand_name
        /\ tasks[b].pc = "returned"}

\* C37: when the analysis call raises, the caller gets the exception and no
\* analysis, the cache is left as it was, and a later call for the same
\* brand name invokes the gateway again.
C37_FailedAnalysisNotCached ==
    /\ [][\A a \in DOMAIN tasks :
             /\ (tasks[a].pc = "analyze" /\ tasks'[a].pc = "raised") =>
                   /\ cache' = cache
                   /\ tasks'[a].result = None
             /\ (Enters(a) /\ Served(a) = {}) =>
                   /\ tasks'[a].pc = "analyze"
                   /\ tasks'[a].called]_vars
    /\ [](\A a \in DOMAIN tasks :
             (tasks[a].pc = "raised" /\ Served(a) = {}) =>
                tasks[a].guidelines.brand_name \notin DOMAIN cache)

C37_Witness ==
    \E a, b \in DOMAIN tasks :
      /\ a # b
      /\ tasks[a].guidelines = tasks[b].guidelines
      /\ tasks[a].pc = "raised" /\ tasks[a].called
      /\ tasks[b].pc = "returned" /\ tasks[b].called
      /\ cache[tasks[b].cache_key] = tasks[b].result[1]

(***************************************************************************)
(* generate_complete_package: termination                                  *)
(***************************************************************************)
PackageEnded == pkg.pc \in {"returned", "raised"}

Generating(c) == tasks[c].pc = "engine" /\ tasks[c].eng.pc = "generate"

Validating(c) == tasks[c].pc = "engine" /\ tasks[c].eng.pc = "validate"

Percentages ==
    LET P == SelectSeq(Events, LAMBDA e : e.type = "progress")
    IN  [i \in 1..Len(P) |-> P[i].percentage]

NonDecreasing(seq) == \A i, j \in 1..Len(seq) : i < j => seq[i] <= seq[j]

\* the percentages of a request with n enabled categories none of which ends
\* the stream: analysis, the n categories, scoring, finalizing
PercentagesOf(n) ==
    <<0>> \o [k \in 1..n |-> Percentage(k, n + 1)] \o <<90, 100>>

\* C39: for every set of enabled categories, the empty one included, the
\* percentages of the progress events never decrease in the order of
\* emission, the first event is a progress event with percentage 0, and a
\* complete event comes immediately after a progress event with 100.
C39_PercentagesNonDecreasing ==
    /\ \A n \in 0..Len(FixedOrder) : NonDecreasing(PercentagesOf(n))
    /\ stream.pc # "idle" =>
         /\ NonDecreasing(Percentages)
         /\ Events # <<>> =>
               Events[1].type = "progress" /\ Events[1].percentage = 0
         /\ \A i \in 1..Len(Events) :
               Events[i].type = "complete" =>
                  /\ i > 1
                  /\ Events[i - 1].type = "progress"
                  /\ Events[i - 1].percentage = 100
         /\ stream.pc = "closed" /\ Events[Len(Events)].type = "complete" =>
               Percentages = PercentagesOf(CategoryCount)

C39_Witness ==
    /\ stream.pc = "closed"
    /\ CategoryCount = 2
    /\ Events[Len(Events)].type = "complete"
    /\ Percentages = <<0, 33, 66, 90, 100>>

====
